---- MODULE Spec2Model ----
(***************************************************************************)
(* Verification model of convoy-graphql.                                   *)
(*                                                                         *)
(* Part 1: the batch loaders of src/src/loader.rs (BatchLoader::load and   *)
(* SimpleBatchLoader::load_with), as concurrent tasks over one             *)
(* Arc<Mutex<PendingBatch>> cell per loader.                               *)
(*   Spec        BatchLoader: callers run load, flush tasks are detached   *)
(*   FairSpec    Spec with the fairness of the tokio scheduler             *)
(*   SimpleSpec  SimpleBatchLoader: callers run load_with                  *)
(*                                                                         *)
(* Granularity.  A future runs from one await to the next without being    *)
(* suspended, and the only state the tasks share is the pending cell       *)
(* (behind the Mutex) and the oneshot channels.  The caller's critical     *)
(* section is kept in three steps (key push, sender push, flag test and    *)
(* unlock) and the flush task's in two (lock, swap), so the states in      *)
(* which the lock is held are visible; the fetch future's completion and   *)
(* the loop over batch.senders are one step, as they are one poll.  A      *)
(* call counts as returned as soon as its channel is settled: rx.await     *)
(* has no effect on shared state.  Time is not modelled: the end of the    *)
(* delay is the moment the flush task takes the lock.                      *)
(*                                                                         *)
(* Values.  The value a fetch invocation maps a key to is the token        *)
(* <<invocation, key>>, so values of different keys and of different       *)
(* invocations never coincide by accident.                                 *)
(***************************************************************************)
EXTENDS Integers, Sequences, FiniteSets, TLC

\* ------------------------------------------------------------------ bounds
\* number of load / load_with calls issued in one run
MaxCalls == 3
\* number of distinct keys the callers choose from
NumKeys == 2
\* number of loader handles: the constructed loader and its clones
MaxHandles == 2

Calls == 1..MaxCalls
Keys == 1..NumKeys
Handles == 1..MaxHandles
\* addresses of Arc<Mutex<PendingBatch>> allocations
Cells == 1..MaxHandles

VARIABLES
  pending,    \* [Cells -> PendingBatch]: the value behind each Mutex
  lock,       \* [Cells -> holder]: <<"free">>, <<"load", c>> or <<"flush", t>>
  pc,         \* [Calls -> position of the caller's load future]
  key,        \* [Calls -> the key argument of the call, 0 before it starts]
  chan,       \* [Calls -> state of the call's oneshot channel]
  fpc,        \* [Calls -> position of the flush task spawned by that call]
  batch,      \* [Calls -> the PendingBatch the flush task took]
  results,    \* history: [Calls -> the entries the fetched map had for the batch's keys]
  taskFn,     \* [Calls -> the fetch function captured by the flush task]
  taskCell,   \* [Calls -> the cell captured as pending_clone]
  fetchLog,   \* sequence of fetch invocations: [task, fn, keys]
  epoch,      \* history: number of mem::take swaps performed so far
  wid,        \* history: [Calls -> epoch at which the call pushed its key, -1 if none]
  tw,         \* history: [Calls -> epoch at which the flush task swapped, -1 if none]
  module,     \* the module the GraphQLSchema attribute is applied to (its items)
  bpc,        \* position of the macro expansion: the stage that runs next
  parsed,     \* the ParsedModule, once parse_module returned Ok
  result,     \* what expand returned (or the error a stage returned), NoResult before
  output,     \* the token stream the macro hands back to the compiler
  ran,        \* history: the stages that ran, in order
  http,       \* history: the responses of graphql_post_handler, with their requests
  open,       \* handle_socket: the receive loop is running
  initialized,   \* handle_socket: `initialized`
  subscriptions, \* handle_socket: `subscriptions`, a map from id to task handle
  tasks,      \* the spawned execute_subscription tasks, by handle
  rxOpen,     \* the receiving half rx of the mpsc channel is alive
  sendTask,   \* state of send_task
  wire,       \* history: the messages send_task has written to the socket, by id
  received,   \* history: count of the frames the receive loop has processed,
              \* of the Subscribes accepted and the Completes after them, by id,
              \* and whether a Subscribe came before ConnectionInit
  cvType,     \* the Rust type a conversion is asked for
  cvValue,    \* the Rust value handed to to_const_value, NoValue if none
  cvConst,    \* the ConstValue handed to from_const_value, NoValue before
  cvResult    \* what from_const_value returned, NoValue before

loaderVars == <<pending, lock, pc, key, chan, fpc, batch, results,
                taskFn, taskCell, fetchLog, epoch, wid, tw>>
buildVars == <<module, bpc, parsed, result, output, ran>>
wsVars == <<open, initialized, subscriptions, tasks, rxOpen, sendTask,
           wire, received>>
convVars == <<cvType, cvValue, cvConst, cvResult>>
serverVars == <<http, wsVars, convVars>>
vars == <<loaderVars, buildVars, serverVars>>

\* ------------------------------------------------------------- data shapes
\* PendingBatch::default
EmptyBatch == [keys |-> <<>>, senders |-> <<>>, scheduled |-> FALSE]

Free == <<"free">>
Open == <<"open">>
Closed == <<"closed">>
None == <<"None">>
Some(v) == <<"Some", v>>

\* The value the fetch invocation of task t maps key k to.  Values of different
\* invocations and of different keys are distinct tokens.
Val(t, k) == <<t, k>>

\* the loader_fn field of a BatchLoader (one function, cloned with the loader)
LoaderFn == 0

\* BatchLoader::new / SimpleBatchLoader::new: a fresh Arc<Mutex<PendingBatch>>
NewLoader == [pending |-> 1, loader_fn |-> LoaderFn]

\* a clone that allocates its own pending cell instead of sharing the Arc
CloneDetached(self) == [pending |-> self.pending + 1, loader_fn |-> self.loader_fn]

\* impl Clone: the Arc is cloned, so the clone points at the same cell
Clone(self) == [pending |-> self.pending, loader_fn |-> self.loader_fn]

RECURSIVE NthClone(_)
NthClone(h) == IF h = 1 THEN NewLoader ELSE Clone(NthClone(h - 1))

\* the handle a call goes through: call c uses the loader (c = 1, 1 + MaxHandles, ..)
\* or one of its clones, as in `let l = loader.clone(); spawn(l.load(i))`
HandleOf(c) == ((c - 1) % MaxHandles) + 1
CellOf(c) == NthClone(HandleOf(c)).pending

\* ------------------------------------------- the GraphQLSchema macro: input
\* number of structs plus resolver methods in the module
MaxItems == 2

\* names of the types a module declares or implements
ContainerNames == {"Query", "Mutation", "Author", "Post"}
\* a method's attribute: none, #[batch(key = "id")], #[batch(delay_ms = 5)]
BatchAttrs == {"none", "key", "nokey"}

\* the Rust types of fields and return values: T and Vec<T>
PlainOf(n) == [vec |-> FALSE, name |-> n]
VecOf(n) == [vec |-> TRUE, name |-> n]

\* the identifier a field or resolver of the given type has in the inputs
MemberName(ty) ==
  LET n == CASE ty.name = "Query" -> "query"
             [] ty.name = "Mutation" -> "mutation"
             [] ty.name = "Author" -> "author"
             [] ty.name = "Post" -> "post"
             [] OTHER -> "comment"
  IN IF ty.vec THEN n \o "s" ELSE n

\* the field lists of the input structs: no field, `post: Post` or
\* `posts: Vec<Post>`
FieldLists ==
  {<<>>} \cup {<<[name |-> MemberName(ty), ty |-> ty]>> :
                 ty \in {PlainOf("Post"), VecOf("Post")}}

\* name and root attribute (none, #[query], #[mutation]) of the input structs
StructHeads ==
  {<<"Query", "none">>, <<"Mutation", "none">>, <<"Post", "none">>,
   <<"Author", "none">>, <<"Author", "query">>, <<"Author", "mutation">>}

\* the struct items of the inputs
StructItems ==
  {[name |-> h[1], attr |-> h[2], fields |-> fs] : h \in StructHeads, fs \in FieldLists}

\* the resolver methods of the inputs, each with the type of its impl block:
\* an unbatched method returning a plain type, or a method returning
\* Vec<Self>, Vec<Post> or Vec<Comment> with any of the batch attributes
ImplMethods ==
  UNION {{[type_name |-> n,
           method |-> [name |-> MemberName(PlainOf("Comment")), batch |-> "none",
                       ret |-> PlainOf("Comment")]]}
         \cup {[type_name |-> n,
                 method |-> [name |-> MemberName(ty), batch |-> b, ret |-> ty]] :
                  ty \in {VecOf(n), VecOf("Post"), VecOf("Comment")}, b \in BatchAttrs} :
         n \in ContainerNames}

\* the impl blocks of a run of methods: adjacent methods of one type are the
\* items of one block
RECURSIVE Blocks(_)
Blocks(fl) ==
  IF fl = <<>> THEN <<>>
  ELSE LET init == Blocks(SubSeq(fl, 1, Len(fl) - 1))
           last == fl[Len(fl)]
       IN IF init # <<>> /\ init[Len(init)].type_name = last.type_name
            THEN [init EXCEPT ![Len(init)].methods = Append(@, last.method)]
            ELSE Append(init, [type_name |-> last.type_name, methods |-> <<last.method>>])

EmptyModule == [structs |-> <<>>, impls |-> <<>>]
NoParsed == [unparsed |-> TRUE]
NoResult == <<"none">>
NoOutput == [kind |-> "none"]
NoResponse == <<>>
NoValue == <<"none">>
NoWire == [i \in {"", "a", "b"} |-> <<>>]
NoneReceived ==
  [frames |-> 0, subscribed |-> [i \in {"a", "b"} |-> 0],
   completed |-> [i \in {"a", "b"} |-> FALSE], early |-> FALSE]

\* --------------------------------------------------------------- initial
\* the state right after BatchLoader::new / SimpleBatchLoader::new and the
\* clones: every cell holds PendingBatch::default, no call has started
LoaderInit ==
  /\ pending = [x \in Cells |-> EmptyBatch]
  /\ lock = [x \in Cells |-> Free]
  /\ pc = [c \in Calls |-> "idle"]
  /\ key = [c \in Calls |-> 0]
  /\ chan = [c \in Calls |-> Open]
  /\ fpc = [c \in Calls |-> "none"]
  /\ batch = [c \in Calls |-> EmptyBatch]
  /\ results = [c \in Calls |-> <<>>]
  /\ taskFn = [c \in Calls |-> LoaderFn]
  /\ taskCell = [c \in Calls |-> 1]
  /\ fetchLog = <<>>
  /\ epoch = 0
  /\ wid = [c \in Calls |-> -1]
  /\ tw = [c \in Calls |-> -1]

\* no macro expansion goes on
BuildOff ==
  /\ module = EmptyModule
  /\ bpc = "off"
  /\ parsed = NoParsed
  /\ result = NoResult
  /\ output = NoOutput
  /\ ran = <<>>

\* no HTTP request was answered
HttpOff == http = NoResponse

\* no WebSocket connection is open
WsOff ==
  /\ open = FALSE
  /\ initialized = FALSE
  /\ subscriptions = <<>>
  /\ tasks = <<>>
  /\ rxOpen = FALSE
  /\ sendTask = "none"
  /\ wire = NoWire
  /\ received = NoneReceived

\* no value conversion goes on
ConvOff ==
  /\ cvType = "none"
  /\ cvValue = NoValue
  /\ cvConst = NoValue
  /\ cvResult = NoValue

\* the loaders are constructed and nothing else goes on
Init ==
  /\ LoaderInit
  /\ BuildOff
  /\ HttpOff /\ WsOff /\ ConvOff

\* the compiler is about to expand #[GraphQLSchema] on a module.
\* parse_module sorts the items into a struct vector and an impl vector and
\* keeps the order inside each, so a module is given by the two sequences.
\* a description with a chain of three members: `struct Query { authors:
\* Vec<Author> }`, `struct Author { post: Post }` and
\* `impl Post { fn comments(&self) -> Vec<Comment> }` without batch attribute
ChainModule ==
  [structs |-> <<[name |-> "Query", attr |-> "none",
                  fields |-> <<[name |-> "authors", ty |-> VecOf("Author")]>>],
                 [name |-> "Author", attr |-> "none",
                  fields |-> <<[name |-> "post", ty |-> PlainOf("Post")]>>]>>,
   impls |-> <<[type_name |-> "Post",
                methods |-> <<[name |-> "comments", batch |-> "none",
                               ret |-> VecOf("Comment")]>>]>>]

\* a description with a root marked by its role: `#[query] struct Author {}`,
\* `impl Author { fn authors(&self) -> Vec<Author> }` and
\* `impl Post { fn posts(&self) -> Vec<Post> }`, both without batch attribute
RoleRootModule ==
  [structs |-> <<[name |-> "Author", attr |-> "query", fields |-> <<>>]>>,
   impls |-> <<[type_name |-> "Author",
                methods |-> <<[name |-> "authors", batch |-> "none",
                               ret |-> VecOf("Author")]>>],
               [type_name |-> "Post",
                methods |-> <<[name |-> "posts", batch |-> "none",
                               ret |-> VecOf("Post")]>>]>>]

\* the macro is applied to a module of up to MaxItems items, or to one of the
\* two descriptions of three items
BuildInit ==
  /\ LoaderInit
  /\ \/ \E s \in 0..MaxItems : \E m \in 0..(MaxItems - s) :
          \E ss \in [1..s -> StructItems], fl \in [1..m -> ImplMethods] :
            module = [structs |-> ss, impls |-> Blocks(fl)]
     \/ module \in {ChainModule, RoleRootModule}
  /\ bpc = "parse"
  /\ parsed = NoParsed
  /\ result = NoResult
  /\ output = NoOutput
  /\ ran = <<>>
  /\ HttpOff /\ WsOff /\ ConvOff

taskVars == <<fpc, batch, results, taskFn, taskCell, fetchLog, epoch, tw>>
callVars == <<pc, key, wid>>

\* the keys the next call may use: the keys already used and one new key
\* (keys are interchangeable, so the first call uses key 1, and so on)
UsedKeys == {key[c] : c \in Calls} \ {0}
NextKeys == {k \in Keys : k = 1 \/ (k - 1) \in UsedKeys}

\* ------------------------------------------------- BatchLoader::load (caller)
\* the lock is released right after the key push, before the sender push
LoadReleasing(c, k) ==
  /\ pc[c] = "idle"
  /\ IF c = 1 THEN TRUE ELSE pc[c - 1] # "idle"
  /\ lock[CellOf(c)] = Free
  /\ pending' = [pending EXCEPT ![CellOf(c)].keys = Append(@, k)]
  /\ key' = [key EXCEPT ![c] = k]
  /\ wid' = [wid EXCEPT ![c] = epoch]
  /\ pc' = [pc EXCEPT ![c] = "pushSender"]
  /\ UNCHANGED <<lock, chan, taskVars>>
  /\ UNCHANGED <<buildVars, serverVars>>

\* load(key): `let (tx, rx) = oneshot::channel()`, then
\* `let mut pending = self.pending.lock().await; pending.keys.push(key.clone())`.
\* Calls are numbered in the order they get the lock; a call dropped while it
\* waits for the lock has registered nothing and is a call that was not made.
Load(c, k) ==
  /\ pc[c] = "idle"
  /\ IF c = 1 THEN TRUE ELSE pc[c - 1] # "idle"
  /\ lock[CellOf(c)] = Free
  /\ lock' = [lock EXCEPT ![CellOf(c)] = <<"load", c>>]
  /\ pending' = [pending EXCEPT ![CellOf(c)].keys = Append(@, k)]
  /\ key' = [key EXCEPT ![c] = k]
  /\ wid' = [wid EXCEPT ![c] = epoch]
  /\ pc' = [pc EXCEPT ![c] = "pushSender"]
  /\ UNCHANGED <<chan, taskVars>>
  /\ UNCHANGED <<buildVars, serverVars>>

\* the pair is put in front of the sender list instead of behind it
LoadPushSenderFront(c) ==
  /\ pc[c] = "pushSender"
  /\ pending' = [pending EXCEPT ![CellOf(c)].senders = <<<<key[c], c>>>> \o @]
  /\ pc' = [pc EXCEPT ![c] = "schedule"]
  /\ UNCHANGED <<lock, key, chan, wid, taskVars>>
  /\ UNCHANGED <<buildVars, serverVars>>

\* `pending.senders.push((key, tx))`
LoadPushSender(c) ==
  /\ pc[c] = "pushSender"
  /\ pending' = [pending EXCEPT ![CellOf(c)].senders = Append(@, <<key[c], c>>)]
  /\ pc' = [pc EXCEPT ![c] = "schedule"]
  /\ UNCHANGED <<lock, key, chan, wid, taskVars>>
  /\ UNCHANGED <<buildVars, serverVars>>

\* a flush is scheduled whenever the batch holds a key, whatever the flag says
ShouldScheduleNonEmpty(p) == p.keys # <<>>

\* the test of the flag is inverted
ShouldScheduleInverted(p) == p.scheduled

\* the flag is not consulted: every call schedules a flush
ShouldScheduleAlways(p) == TRUE

\* `if !pending.scheduled`
ShouldSchedule(p) == ~p.scheduled

\* `if !pending.scheduled { pending.scheduled = true; tokio::spawn(..) }`, then
\* the guard is dropped at the end of the block and the future waits in rx.await
LoadSchedule(c) ==
  /\ pc[c] = "schedule"
  /\ IF ShouldSchedule(pending[CellOf(c)])
       THEN /\ pending' = [pending EXCEPT ![CellOf(c)].scheduled = TRUE]
            /\ fpc' = [fpc EXCEPT ![c] = "sleep"]
            /\ taskFn' = [taskFn EXCEPT ![c] = NthClone(HandleOf(c)).loader_fn]
            /\ taskCell' = [taskCell EXCEPT ![c] = CellOf(c)]
       ELSE UNCHANGED <<pending, fpc, taskFn, taskCell>>
  /\ lock' = [lock EXCEPT ![CellOf(c)] = Free]
  /\ pc' = [pc EXCEPT ![c] = "await"]
  /\ UNCHANGED <<key, chan, wid, batch, results, fetchLog, epoch, tw>>
  /\ UNCHANGED <<buildVars, serverVars>>

\* `rx.await` is over: a value was sent, or the sender was dropped; the call
\* returns as soon as that happened, unless the caller dropped the future before
Resolved(c) == pc[c] = "await" /\ chan[c] # Open

\* `rx.await.ok()`, what a resolved call returns: Ok(v) becomes Some(v),
\* Err (the sender is gone) becomes None
Returned(c) == IF chan[c] = Closed THEN None ELSE Some(chan[c][2])

\* V::default(), a token of its own
DefaultValue == <<"default">>

\* the Option is unwrapped only when it holds a value, None is passed on
UnwrapKeepNone(o) == IF o = None THEN None ELSE o[2]

\* Option::unwrap_or_default
UnwrapOrDefault(o) == IF o = None THEN DefaultValue ELSE o[2]

\* load_or_default(key): `self.load(key).await.unwrap_or_default()`; it is
\* pending as long as the load future it polls is, and resolves with it
LoadOrDefaultReturned(c) == UnwrapOrDefault(Returned(c))

\* the caller drops its load future while it is pending in rx.await: rx is
\* dropped
Cancel(c) ==
  /\ pc[c] = "await"
  /\ chan[c] = Open
  /\ pc' = [pc EXCEPT ![c] = "cancelled"]
  /\ chan' = [chan EXCEPT ![c] = Closed]
  /\ UNCHANGED <<pending, lock, key, wid, taskVars>>
  /\ UNCHANGED <<buildVars, serverVars>>

\* ------------------------------------------------ the detached flush task
\* `tokio::time::sleep(delay).await` has elapsed and
\* `let mut p = pending_clone.lock().await` got the lock
FlushLock(t) ==
  /\ fpc[t] = "sleep"
  /\ lock[taskCell[t]] = Free
  /\ lock' = [lock EXCEPT ![taskCell[t]] = <<"flush", t>>]
  /\ fpc' = [fpc EXCEPT ![t] = "take"]
  /\ UNCHANGED <<pending, chan, batch, results, taskFn, taskCell,
                 fetchLog, epoch, tw, callVars>>
  /\ UNCHANGED <<buildVars, serverVars>>

\* a swap that hands the batch to the flush task but leaves the cell as it was
LeftBehindCopy(p) == p

\* a swap that empties the two lists but leaves the scheduled flag as it was
LeftBehindKeepFlag(p) == [keys |-> <<>>, senders |-> <<>>, scheduled |-> p.scheduled]

\* what std::mem::take leaves in the cell: PendingBatch::default()
LeftBehind(p) == EmptyBatch

\* the key vector without its repeated keys, in first-occurrence order
RECURSIVE Dedup(_)
Dedup(ks) ==
  IF ks = <<>> THEN <<>>
  ELSE LET init == Dedup(SubSeq(ks, 1, Len(ks) - 1))
           last == ks[Len(ks)]
       IN IF \E i \in DOMAIN init : init[i] = last THEN init ELSE Append(init, last)

\* the key vector was moved out of the batch before the call
FetchCallsTaken(t, b) == <<[task |-> t, fn |-> taskFn[t], keys |-> <<>>]>>

\* one fetch invocation, with the deduplicated key vector
FetchCallsDedup(t, b) == <<[task |-> t, fn |-> taskFn[t], keys |-> Dedup(b.keys)]>>

\* one fetch invocation per key of the batch
FetchCallsPerKey(t, b) ==
  [i \in 1..Len(b.keys) |-> [task |-> t, fn |-> taskFn[t], keys |-> <<b.keys[i]>>]]

\* `loader(batch.keys)` / `batch_fn(batch.keys)`: one invocation, with the
\* whole key vector
FetchCalls(t, b) == <<[task |-> t, fn |-> taskFn[t], keys |-> b.keys]>>

\* the guard lives on after the swap: the lock stays with the flush task
\* while it awaits the fetch
FlushTakeHolding(t) ==
  /\ fpc[t] = "take"
  /\ batch' = [batch EXCEPT ![t] = pending[taskCell[t]]]
  /\ pending' = [pending EXCEPT ![taskCell[t]] = LeftBehind(@)]
  /\ tw' = [tw EXCEPT ![t] = epoch]
  /\ epoch' = epoch + 1
  /\ IF pending[taskCell[t]].keys = <<>>
       THEN /\ fpc' = [fpc EXCEPT ![t] = "done"]
            /\ UNCHANGED fetchLog
       ELSE /\ fpc' = [fpc EXCEPT ![t] = "fetch"]
            /\ fetchLog' = fetchLog \o FetchCalls(t, pending[taskCell[t]])
  /\ UNCHANGED <<lock, chan, results, taskFn, taskCell, callVars>>
  /\ UNCHANGED <<buildVars, serverVars>>

\* `std::mem::take(&mut *p)`, the guard dropped at the end of the block,
\* `if batch.keys.is_empty() { return; }`, else the fetch function is invoked
\* and the task waits in `.await` for its future
FlushTake(t) ==
  /\ fpc[t] = "take"
  /\ batch' = [batch EXCEPT ![t] = pending[taskCell[t]]]
  /\ pending' = [pending EXCEPT ![taskCell[t]] = LeftBehind(@)]
  /\ lock' = [lock EXCEPT ![taskCell[t]] = Free]
  /\ tw' = [tw EXCEPT ![t] = epoch]
  /\ epoch' = epoch + 1
  /\ IF pending[taskCell[t]].keys = <<>>
       THEN /\ fpc' = [fpc EXCEPT ![t] = "done"]
            /\ UNCHANGED fetchLog
       ELSE /\ fpc' = [fpc EXCEPT ![t] = "fetch"]
            /\ fetchLog' = fetchLog \o FetchCalls(t, pending[taskCell[t]])
  /\ UNCHANGED <<chan, results, taskFn, taskCell, callVars>>
  /\ UNCHANGED <<buildVars, serverVars>>

\* the lookup goes by the first key of the batch instead of the pair's key
LookupFirst(t, res, k) ==
  IF batch[t].keys[1] \in DOMAIN res THEN Some(res[batch[t].keys[1]]) ELSE None

\* `results.get(&key)`
Lookup(t, res, k) == IF k \in DOMAIN res THEN Some(res[k]) ELSE None

\* a sender whose key is missing is kept alive instead of dropped
AfterSendLeaky(ch, c, found) ==
  IF pc[c] = "cancelled" THEN ch[c]
  ELSE IF found = None THEN ch[c] ELSE <<"sent", found[2]>>

\* the channel of call c after its loop iteration: `let _ = tx.send(v)` when
\* the key was found (Err, ignored, when rx is gone), and tx dropped at the end
\* of the iteration when it was not
AfterSend(ch, c, found) ==
  IF pc[c] = "cancelled" THEN ch[c]
  ELSE IF found = None THEN Closed ELSE <<"sent", found[2]>>

\* the senders are kept alive: no channel is closed
DropNone(ch, senders) == ch

\* every sender of the sequence is dropped unsent
DropAll(ch, senders) ==
  [c \in Calls |-> IF (\E i \in DOMAIN senders : senders[i][2] = c) /\ ch[c] = Open
                     THEN Closed ELSE ch[c]]

\* a failed send ends the loop: the remaining senders are dropped unsent
RECURSIVE DistributeAborting(_, _, _, _)
DistributeAborting(ch, senders, t, res) ==
  IF senders = <<>> THEN ch
  ELSE LET k == senders[1][1]
           c == senders[1][2]
       IN IF Lookup(t, res, k) # None /\ pc[c] = "cancelled"
            THEN DropAll(ch, Tail(senders))
            ELSE DistributeAborting([ch EXCEPT ![c] = AfterSend(ch, c, Lookup(t, res, k))],
                                    Tail(senders), t, res)

\* `for (key, tx) in batch.senders { if let Some(value) = results.get(&key)
\* { let _ = tx.send(value.clone()); } }`: the channels after the loop
RECURSIVE Distribute(_, _, _, _)
Distribute(ch, senders, t, res) ==
  IF senders = <<>> THEN ch
  ELSE LET k == senders[1][1]
           c == senders[1][2]
       IN Distribute([ch EXCEPT ![c] = AfterSend(ch, c, Lookup(t, res, k))],
                     Tail(senders), t, res)

\* the keys of a key vector
KeySet(ks) == {ks[i] : i \in DOMAIN ks}

\* the fetch future completes with a map whose key set is D (any subset of the
\* keys, requested or not) and that maps k to Val(t, k); `let results = ..` and
\* the loop over batch.senders run in the same poll, then the task ends and
\* drops the map.  The history keeps the entries of the requested keys.
FetchReturn(t, D) ==
  /\ fpc[t] = "fetch"
  /\ LET res == [k \in D |-> Val(t, k)]
     IN /\ chan' = Distribute(chan, batch[t].senders, t, res)
        /\ results' = [results EXCEPT ![t] = [k \in D \cap KeySet(batch[t].keys) |-> res[k]]]
  /\ fpc' = [fpc EXCEPT ![t] = "done"]
  /\ UNCHANGED <<pending, lock, batch, taskFn, taskCell, fetchLog, epoch, tw, callVars>>
  /\ UNCHANGED <<buildVars, serverVars>>

\* the fetch future panics: tokio drops the task's future and with it
\* batch.senders, so every sender of the batch is dropped unsent
FetchPanic(t) ==
  /\ fpc[t] = "fetch"
  /\ fpc' = [fpc EXCEPT ![t] = "panicked"]
  /\ chan' = DropAll(chan, batch[t].senders)
  /\ UNCHANGED <<pending, lock, batch, results, taskFn, taskCell,
                 fetchLog, epoch, tw, callVars>>
  /\ UNCHANGED <<buildVars, serverVars>>

\* ------------------------------------- SimpleBatchLoader::load_with (caller)
\* the fetch function passed to load_with by call c
BatchFn(c) == c

\* load_with(key, batch_fn): `let (tx, rx) = oneshot::channel()`, then
\* `let mut pending = self.pending.lock().await; pending.keys.push(key.clone())`
LoadWith(c, k) ==
  /\ pc[c] = "idle"
  /\ IF c = 1 THEN TRUE ELSE pc[c - 1] # "idle"
  /\ lock[CellOf(c)] = Free
  /\ lock' = [lock EXCEPT ![CellOf(c)] = <<"load", c>>]
  /\ pending' = [pending EXCEPT ![CellOf(c)].keys = Append(@, k)]
  /\ key' = [key EXCEPT ![c] = k]
  /\ wid' = [wid EXCEPT ![c] = epoch]
  /\ pc' = [pc EXCEPT ![c] = "pushSender"]
  /\ UNCHANGED <<chan, taskVars>>
  /\ UNCHANGED <<buildVars, serverVars>>

\* `pending.senders.push((key, tx))`
LoadWithPushSender(c) ==
  /\ pc[c] = "pushSender"
  /\ pending' = [pending EXCEPT ![CellOf(c)].senders = Append(@, <<key[c], c>>)]
  /\ pc' = [pc EXCEPT ![c] = "schedule"]
  /\ UNCHANGED <<lock, key, chan, wid, taskVars>>
  /\ UNCHANGED <<buildVars, serverVars>>

\* `let should_spawn = { .. if !pending.scheduled { pending.scheduled = true;
\* true } else { false } };` and the guard dropped at the end of the block;
\* without should_spawn the future goes on to rx.await
LoadWithCheck(c) ==
  /\ pc[c] = "schedule"
  /\ IF ShouldSchedule(pending[CellOf(c)])
       THEN /\ pending' = [pending EXCEPT ![CellOf(c)].scheduled = TRUE]
            /\ pc' = [pc EXCEPT ![c] = "spawn"]
       ELSE /\ UNCHANGED pending
            /\ pc' = [pc EXCEPT ![c] = "await"]
  /\ lock' = [lock EXCEPT ![CellOf(c)] = Free]
  /\ UNCHANGED <<key, chan, wid, taskVars>>
  /\ UNCHANGED <<buildVars, serverVars>>

\* `if should_spawn { tokio::spawn(..) }`: the task captures this call's
\* batch_fn; then the future waits in rx.await
LoadWithSpawn(c) ==
  /\ pc[c] = "spawn"
  /\ fpc' = [fpc EXCEPT ![c] = "sleep"]
  /\ taskFn' = [taskFn EXCEPT ![c] = BatchFn(c)]
  /\ taskCell' = [taskCell EXCEPT ![c] = CellOf(c)]
  /\ pc' = [pc EXCEPT ![c] = "await"]
  /\ UNCHANGED <<pending, lock, key, chan, wid, batch, results, fetchLog, epoch, tw>>
  /\ UNCHANGED <<buildVars, serverVars>>

\* --------------------------------------------------------- specifications
Next ==
  \/ \E c \in Calls, k \in NextKeys : Load(c, k)
  \/ \E c \in Calls : LoadPushSender(c)
  \/ \E c \in Calls : LoadSchedule(c)
  \/ \E c \in Calls : Cancel(c)
  \/ \E t \in Calls : FlushLock(t)
  \/ \E t \in Calls : FlushTake(t)
  \/ \E t \in Calls, D \in SUBSET Keys : FetchReturn(t, D)
  \/ \E t \in Calls : FetchPanic(t)

\* BatchLoader: callers run load
Spec == Init /\ [][Next]_vars

\* a step of a task that the runtime can poll: a caller that holds the lock
\* goes on, a flush task whose sleep is over gets the lock and swaps, and the
\* fetch future of a window completes (it returns or panics)
Progress ==
  \/ \E c \in Calls : LoadPushSender(c)
  \/ \E c \in Calls : LoadSchedule(c)
  \/ \E t \in Calls : FlushLock(t)
  \/ \E t \in Calls : FlushTake(t)
  \/ \E t \in Calls, D \in SUBSET Keys : FetchReturn(t, D)
  \/ \E t \in Calls : FetchPanic(t)

\* The tokio scheduler keeps polling woken tasks, the tokio Mutex hands the lock
\* to its waiters, and fetch futures complete: the system does not stop while
\* such a step is possible.  Callers are free to call load or not, and to
\* cancel or not.
Fairness == WF_vars(Progress)

FairSpec == Spec /\ Fairness

SimpleNext ==
  \/ \E c \in Calls, k \in NextKeys : LoadWith(c, k)
  \/ \E c \in Calls : LoadWithPushSender(c)
  \/ \E c \in Calls : LoadWithCheck(c)
  \/ \E c \in Calls : LoadWithSpawn(c)
  \/ \E c \in Calls : Cancel(c)
  \/ \E t \in Calls : FlushLock(t)
  \/ \E t \in Calls : FlushTake(t)
  \/ \E t \in Calls, D \in SUBSET Keys : FetchReturn(t, D)
  \/ \E t \in Calls : FetchPanic(t)

\* SimpleBatchLoader: callers run load_with
SimpleSpec == Init /\ [][SimpleNext]_vars

\* the lookup falls back to any entry of the map when the key is missing
LookupOrAny(t, res, k) ==
  IF k \in DOMAIN res THEN Some(res[k])
  ELSE IF DOMAIN res # {} THEN Some(res[CHOOSE x \in DOMAIN res : TRUE])
  ELSE None

\* `results.get(&key)` on the map the fetch returned, entries of keys that
\* were not requested included
LookupIn(t, res, k) == IF k \in DOMAIN res THEN Some(res[k]) ELSE None

\* the loop over batch.senders on the whole map
RECURSIVE DistributeFrom(_, _, _, _)
DistributeFrom(ch, senders, t, res) ==
  IF senders = <<>> THEN ch
  ELSE LET k == senders[1][1]
           c == senders[1][2]
       IN DistributeFrom([ch EXCEPT ![c] = AfterSend(ch, c, LookupIn(t, res, k))],
                         Tail(senders), t, res)

\* the key sets the fetch of task t returns here: any part of the requested
\* keys, alone or together with every key that was not requested
ReturnedKeys(t) ==
  {d \cup x : d \in SUBSET KeySet(batch[t].keys),
              x \in {{}, Keys \ KeySet(batch[t].keys)}}

\* the poll of FetchReturn with the whole fetched map kept as history: the map
\* is a local of the task (`let results = ..`), read by the loop and dropped
\* when the task ends; nothing of it is written to the PendingBatch
FetchReturnWhole(t, D) ==
  /\ fpc[t] = "fetch"
  /\ LET res == [k \in D |-> Val(t, k)]
     IN /\ chan' = DistributeFrom(chan, batch[t].senders, t, res)
        /\ results' = [results EXCEPT ![t] = res]
  /\ fpc' = [fpc EXCEPT ![t] = "done"]
  /\ UNCHANGED <<pending, lock, batch, taskFn, taskCell, fetchLog, epoch, tw, callVars>>
  /\ UNCHANGED <<buildVars, serverVars>>

WholeNext ==
  \/ \E c \in Calls, k \in NextKeys : Load(c, k)
  \/ \E c \in Calls : LoadPushSender(c)
  \/ \E c \in Calls : LoadSchedule(c)
  \/ \E c \in Calls : Cancel(c)
  \/ \E t \in Calls : FlushLock(t)
  \/ \E t \in Calls : FlushTake(t)
  \/ \E t \in Calls : \E D \in ReturnedKeys(t) : FetchReturnWhole(t, D)
  \/ \E t \in Calls : FetchPanic(t)

\* BatchLoader with the whole fetched map of every window as history
WholeSpec == Init /\ [][WholeNext]_vars

\* ------------------------------------------ the GraphQLSchema macro: parse
\* syn::Result
Ok(v) == <<"Ok", v>>
Err(e) == <<"Err", e>>
IsOk(r) == r[1] = "Ok"
IsErr(r) == r[1] = "Err"

\* the text of a message built from its pieces
RECURSIVE Cat(_)
Cat(ps) == IF ps = <<>> THEN "" ELSE ps[1] \o Cat(Tail(ps))

\* analyze_type: Vec<T> is a list with inner type T, any other type is no
\* list and has no inner type (the inputs have no Option or Result wrappers)
analyze_type(ty) ==
  IF ty.vec THEN [is_list |-> TRUE, inner |-> Some(ty.name)]
  ELSE [is_list |-> FALSE, inner |-> None]

\* analyze_return_type
analyze_return_type(ty) == analyze_type(ty)

\* parse_struct_fields
parse_struct_fields(item) ==
  [i \in DOMAIN item.fields |->
     [name |-> item.fields[i].name,
      ty |-> item.fields[i].ty,
      is_list |-> analyze_type(item.fields[i].ty).is_list,
      inner_type |-> analyze_type(item.fields[i].ty).inner]]

\* parse_struct with parse_struct_attrs: the role flags come from the
\* attribute or from the struct's name (the inputs set no custom name)
parse_struct(item) ==
  [name |-> item.name,
   graphql_name |-> item.name,
   is_query |-> item.attr = "query" \/ item.name = "Query",
   is_mutation |-> item.attr = "mutation" \/ item.name = "Mutation",
   is_subscription |-> item.name = "Subscription",
   fields |-> parse_struct_fields(item)]

\* the tokens of the batch attribute of a method
BatchAttrTokens(b) ==
  IF b = "key" THEN <<"#", "[", "batch", "(", "key", "=", "\"id\"", ")", "]">>
  ELSE <<"#", "[", "batch", "(", "delay_ms", "=", "5", ")", "]">>

\* a batch attribute without key is taken as a configuration with an empty key
parse_batch_attr_lenient(b) ==
  IF b = "none" THEN Ok(None)
  ELSE IF b = "key" THEN Ok(Some([key |-> "id", delay_ms |-> 1]))
  ELSE Ok(Some([key |-> "", delay_ms |-> 5]))

\* parse_batch_attr: no batch attribute gives None, one with a key gives the
\* configuration, one without a key is an error spanned on the attribute
parse_batch_attr(b) ==
  IF b = "none" THEN Ok(None)
  ELSE IF b = "key" THEN Ok(Some([key |-> "id", delay_ms |-> 1]))
  ELSE Err([span |-> BatchAttrTokens(b),
            message |-> <<"batch attribute requires 'key' parameter: #[batch(key = \"field\")]">>])

\* parse_method (the inputs' methods have public names, a &self receiver and
\* a return type)
parse_method(m) ==
  LET batch_config == parse_batch_attr(m.batch)
  IN IF IsErr(batch_config) THEN batch_config
     ELSE Ok([name |-> m.name,
              args |-> <<>>,
              return_type |-> m.ret,
              batch_config |-> batch_config[2],
              is_list_return |-> analyze_return_type(m.ret).is_list,
              inner_return_type |-> analyze_return_type(m.ret).inner])

\* the loop of parse_impl over the items of the block: the first error ends it
RECURSIVE ParseMethods(_)
ParseMethods(ms) ==
  IF ms = <<>> THEN Ok(<<>>)
  ELSE LET first == parse_method(ms[1])
       IN IF IsErr(first) THEN first
          ELSE LET rest == ParseMethods(Tail(ms))
               IN IF IsErr(rest) THEN rest ELSE Ok(<<first[2]>> \o rest[2])

\* parse_impl
parse_impl(item) ==
  LET methods == ParseMethods(item.methods)
  IN IF IsErr(methods) THEN methods
     ELSE Ok([type_name |-> item.type_name, methods |-> methods[2]])

\* the loop of parse_module over the impl items
RECURSIVE ParseImpls(_)
ParseImpls(is) ==
  IF is = <<>> THEN Ok(<<>>)
  ELSE LET first == parse_impl(is[1])
       IN IF IsErr(first) THEN first
          ELSE LET rest == ParseImpls(Tail(is))
               IN IF IsErr(rest) THEN rest ELSE Ok(<<first[2]>> \o rest[2])

\* parse_module
parse_module(m) ==
  LET impls == ParseImpls(m.impls)
  IN IF IsErr(impls) THEN impls
     ELSE Ok([name |-> "schema",
              structs |-> [i \in DOMAIN m.structs |-> parse_struct(m.structs[i])],
              impls |-> impls[2]])

\* ParsedModule::query_type / mutation_type / subscription_type: the first
\* struct with the role or the name
query_type(pm) ==
  LET hits == {i \in DOMAIN pm.structs :
                 pm.structs[i].is_query \/ pm.structs[i].name = "Query"}
  IN IF hits = {} THEN None
     ELSE Some(pm.structs[CHOOSE i \in hits : \A j \in hits : i <= j])

mutation_type(pm) ==
  LET hits == {i \in DOMAIN pm.structs :
                 pm.structs[i].is_mutation \/ pm.structs[i].name = "Mutation"}
  IN IF hits = {} THEN None
     ELSE Some(pm.structs[CHOOSE i \in hits : \A j \in hits : i <= j])

\* ------------------------------------- validation.rs: validate_n_plus_one
\* the fields of all structs, in declaration order, each with its struct's name
RECURSIVE AllFields(_)
AllFields(structs) ==
  IF structs = <<>> THEN <<>>
  ELSE [j \in DOMAIN structs[1].fields |->
          [owner |-> structs[1].name, member |-> structs[1].fields[j]]]
       \o AllFields(Tail(structs))

\* the methods of all impl blocks, in declaration order, each with its block's type
RECURSIVE AllMethods(_)
AllMethods(impls) ==
  IF impls = <<>> THEN <<>>
  ELSE [j \in DOMAIN impls[1].methods |->
          [owner |-> impls[1].type_name, member |-> impls[1].methods[j]]]
       \o AllMethods(Tail(impls))

\* the elements of a sequence
Range(q) == {q[i] : i \in DOMAIN q}

\* the set is closed one step further: the type of a plain field of a
\* struct in list context counts as in list context too
list_context_types_transitive(pm) ==
  LET direct ==
        {e.member.inner_type[2] :
           e \in {x \in Range(AllFields(pm.structs)) :
                    x.member.is_list /\ x.member.inner_type # None}}
        \cup
        {e.member.inner_return_type[2] :
           e \in {x \in Range(AllMethods(pm.impls)) :
                    x.member.is_list_return /\ x.member.inner_return_type # None}}
  IN direct \cup {e.member.ty.name :
                    e \in {x \in Range(AllFields(pm.structs)) :
                             x.owner \in direct /\ ~x.member.is_list}}

\* the impl blocks of Query and Mutation are left out of the second loop
list_context_types_skip_roots(pm) ==
  {e.member.inner_type[2] :
     e \in {x \in Range(AllFields(pm.structs)) :
              x.member.is_list /\ x.member.inner_type # None}}
  \cup
  {e.member.inner_return_type[2] :
     e \in {x \in Range(AllMethods(pm.impls)) :
              /\ x.owner \notin {"Query", "Mutation"}
              /\ x.member.is_list_return /\ x.member.inner_return_type # None}}

\* the struct fields are not scanned: only the list-returning methods count
list_context_types_methods_only(pm) ==
  {e.member.inner_return_type[2] :
     e \in {x \in Range(AllMethods(pm.impls)) :
              x.member.is_list_return /\ x.member.inner_return_type # None}}

\* the first two loops: list_context_types, the inner types of all list
\* fields and of all list-returning methods
list_context_types(pm) ==
  {e.member.inner_type[2] :
     e \in {x \in Range(AllFields(pm.structs)) :
              x.member.is_list /\ x.member.inner_type # None}}
  \cup
  {e.member.inner_return_type[2] :
     e \in {x \in Range(AllMethods(pm.impls)) :
              x.member.is_list_return /\ x.member.inner_return_type # None}}

IsFieldSource(e, type_name) ==
  e.member.is_list /\ e.member.inner_type = Some(type_name)
IsMethodSource(e, type_name) ==
  e.member.is_list_return /\ e.member.inner_return_type = Some(type_name)

\* format!("{}.{}: Vec<{}>", s.name, field.name, type_name)
FieldSource(e, type_name) == Cat(<<e.owner, ".", e.member.name, ": Vec<", type_name, ">">>)
\* format!("{}::{}() -> Vec<{}>", impl_block.type_name, method.name, type_name)
MethodSource(e, type_name) == Cat(<<e.owner, "::", e.member.name, "() -> Vec<", type_name, ">">>)

\* the methods of the type's own impl blocks are left out of the sources
find_list_context_sources_others(pm, type_name) ==
  LET fs == SelectSeq(AllFields(pm.structs), LAMBDA e : IsFieldSource(e, type_name))
      ms == SelectSeq(AllMethods(pm.impls),
                      LAMBDA e : IsMethodSource(e, type_name) /\ e.owner # type_name)
  IN [i \in DOMAIN fs |-> FieldSource(fs[i], type_name)]
     \o [i \in DOMAIN ms |-> MethodSource(ms[i], type_name)]

\* find_list_context_sources: the list fields with that inner type, then the
\* list-returning methods with that inner type
find_list_context_sources(pm, type_name) ==
  LET fs == SelectSeq(AllFields(pm.structs), LAMBDA e : IsFieldSource(e, type_name))
      ms == SelectSeq(AllMethods(pm.impls), LAMBDA e : IsMethodSource(e, type_name))
  IN [i \in DOMAIN fs |-> FieldSource(fs[i], type_name)]
     \o [i \in DOMAIN ms |-> MethodSource(ms[i], type_name)]

\* context_sources.join(", ")
RECURSIVE Join(_, _)
Join(strs, sep) ==
  IF strs = <<>> THEN ""
  ELSE IF Len(strs) = 1 THEN strs[1]
  ELSE strs[1] \o sep \o Join(Tail(strs), sep)

\* the error of validate_n_plus_one for a method: spanned on the method's
\* name, the message made of the format string's pieces and its arguments
\* (' stands for the backquote of the source text)
NPlusOneError(pm, type_name, method) ==
  LET context_sources == find_list_context_sources(pm, type_name)
      context_hint ==
        IF context_sources = <<>> THEN <<>>
        ELSE <<"\n   = note: '", type_name, "' appears in list context via: ",
               Join(context_sources, ", ")>>
  IN [span |-> <<method.name>>,
      type_name |-> type_name,
      method_name |-> method.name,
      context_sources |-> context_sources,
      message |-> <<"N+1 query detected! '", type_name, "::", method.name,
                    "' returns a list but is not batched.\n",
                    "\n   = note: '", type_name,
                    "' appears in list context, so resolvers returning lists can cause N+1">>
                  \o context_hint
                  \o <<"\n", "\n   = help: add #[batch(key = \"field\")] to enable batching">>]

\* `type_name == "Query" || type_name == "Mutation"`
IsRootName(pm, type_name) == type_name = "Query" \/ type_name = "Mutation"

\* `method.is_list_return && method.batch_config.is_none()`
IsUnbatchedList(method) == method.is_list_return /\ method.batch_config = None

\* the methods of every impl block are checked
InListContextAlways(pm, type_name) == TRUE

\* `list_context_types.contains(&type_name)`
InListContext(pm, type_name) == type_name \in list_context_types(pm)

\* the loop over the methods of one impl block: the first unbatched
\* list-returning method ends the validation with its error
RECURSIVE CheckMethods(_, _, _)
CheckMethods(pm, type_name, methods) ==
  IF methods = <<>> THEN Ok(<<>>)
  ELSE IF IsUnbatchedList(methods[1])
         THEN Err(NPlusOneError(pm, type_name, methods[1]))
         ELSE CheckMethods(pm, type_name, Tail(methods))

\* the third loop, over the impl blocks: root names are skipped, the methods
\* of a type in list context are checked
RECURSIVE CheckImpls(_, _)
CheckImpls(pm, impls) ==
  IF impls = <<>> THEN Ok(<<>>)
  ELSE LET type_name == impls[1].type_name
           here == IF IsRootName(pm, type_name) THEN Ok(<<>>)
                   ELSE IF InListContext(pm, type_name)
                          THEN CheckMethods(pm, type_name, impls[1].methods)
                          ELSE Ok(<<>>)
       IN IF IsErr(here) THEN here ELSE CheckImpls(pm, Tail(impls))

validate_n_plus_one(pm) == CheckImpls(pm, pm.impls)

\* ---------------------------------------------------- codegen.rs: generate
\* the error of generate_schema_struct, spanned on the module's name
MissingQueryRoot(pm) ==
  [span |-> <<pm.name>>,
   message |-> <<"GraphQLSchema module must contain a Query type (struct named 'Query' or marked with #[query])">>]

\* generate_schema_struct: without a query type the error, else the Schema
\* struct built on the root types
generate_schema_struct(pm) ==
  IF query_type(pm) = None
    THEN Err(MissingQueryRoot(pm))
    ELSE Ok([query |-> query_type(pm)[2].name,
             mutation |-> IF mutation_type(pm) = None THEN None
                          ELSE Some(mutation_type(pm)[2].name)])

\* generate: the module's own items, the per-struct and per-impl code (which
\* cannot fail) and the schema struct
generate(pm, m) ==
  LET schema_struct == generate_schema_struct(pm)
  IN IF IsErr(schema_struct) THEN schema_struct
     ELSE Ok([original_items |-> m, schema_struct |-> schema_struct[2]])

\* ------------------------------------------------------- mod.rs: expand
\* `let args = parse_macro_args(attr)?; let parsed = parse_module(&module, args)?;`
\* (the attribute has no arguments)
ExpandParse ==
  /\ bpc = "parse"
  /\ ran' = Append(ran, "parse")
  /\ LET r == parse_module(module)
     IN IF IsErr(r)
          THEN /\ result' = r
               /\ bpc' = "emit"
               /\ UNCHANGED parsed
          ELSE /\ parsed' = r[2]
               /\ bpc' = "validate"
               /\ UNCHANGED result
  /\ UNCHANGED <<module, output, loaderVars, serverVars>>

\* the outcome of the validation is dropped and the expansion goes on
ExpandValidateLenient ==
  /\ bpc = "validate"
  /\ ran' = Append(ran, "validate")
  /\ bpc' = "generate"
  /\ UNCHANGED <<module, parsed, result, output, loaderVars, serverVars>>

\* `validation::validate_n_plus_one(&parsed)?;`
ExpandValidate ==
  /\ bpc = "validate"
  /\ ran' = Append(ran, "validate")
  /\ LET r == validate_n_plus_one(parsed)
     IN IF IsErr(r)
          THEN /\ result' = r
               /\ bpc' = "emit"
          ELSE /\ bpc' = "generate"
               /\ UNCHANGED result
  /\ UNCHANGED <<module, parsed, output, loaderVars, serverVars>>

\* `codegen::generate(&parsed, &module)`, the value expand returns
ExpandGenerate ==
  /\ bpc = "generate"
  /\ ran' = Append(ran, "generate")
  /\ result' = generate(parsed, module)
  /\ bpc' = "emit"
  /\ UNCHANGED <<module, parsed, output, loaderVars, serverVars>>

\* lib.rs, GraphQLSchema: `match expand(..) { Ok(tokens) => tokens,
\* Err(err) => err.to_compile_error() }`
Emit ==
  /\ bpc = "emit"
  /\ output' = IF IsOk(result) THEN [kind |-> "tokens", tokens |-> result[2]]
               ELSE [kind |-> "compile_error", error |-> result[2]]
  /\ bpc' = "done"
  /\ UNCHANGED <<module, parsed, result, ran, loaderVars, serverVars>>

BuildNext ==
  \/ ExpandParse
  \/ ExpandValidate
  \/ ExpandGenerate
  \/ Emit

\* the expansion of #[GraphQLSchema] on one module
BuildSpec == BuildInit /\ [][BuildNext]_vars

\* ------------------------------------ server/axum.rs: graphql_post_handler
\* most requests one HTTP client sends, most errors one execution reports
MaxPosts == 2
MaxErrors == 2

Null == <<"Null">>
Object(k) == <<"Object", k>>

\* the queries a client posts, by what the schema makes of them
QueryKinds ==
  {"valid", "nonexistent_field", "syntax_error", "failing_resolver", "failing_nullable"}

\* GraphQLRequest: query, variables (absent or a JSON object), operationName
\* (absent, the name of an operation of the document, or another name)
GraphQLRequests ==
  [query : QueryKinds,
   variables : {None, Some("object")},
   operation_name : {None, Some("Known"), Some("Unknown")}]

\* the errors an execution reports: n errors about one cause
ServerErrors(cause, n) == [i \in 1..n |-> [message |-> cause, locations |-> i, path |-> i]]

\* state.schema.execute(gql_request): the responses async_graphql can give.
\* An unknown operation name, a syntax error and a validation error end the
\* request before execution, with null data; an error in a non-null field
\* nulls the data, an error in a nullable field leaves partial data.
Execute(req) ==
  IF req.query = "syntax_error"
    THEN {[data |-> Null, errors |-> ServerErrors("syntax", 1)]}
  ELSE IF req.operation_name = Some("Unknown")
    THEN {[data |-> Null, errors |-> ServerErrors("unknown operation", 1)]}
  ELSE IF req.query = "nonexistent_field"
    THEN {[data |-> Null, errors |-> ServerErrors("unknown field", n)] : n \in 1..MaxErrors}
  ELSE IF req.query = "failing_resolver"
    THEN {[data |-> Null, errors |-> ServerErrors("resolver", n)] : n \in 1..MaxErrors}
  ELSE IF req.query = "failing_nullable"
    THEN {[data |-> Object("partial"), errors |-> ServerErrors("resolver", n)] :
            n \in 1..MaxErrors}
  ELSE {[data |-> Object("full"), errors |-> <<>>]}

\* response.data.into_json().unwrap_or(serde_json::Value::Null)
IntoJson(v) == <<"json", v>>

\* `if response.data != Value::Null { Some(..into_json()..) } else { None }`
ResponseData(response) ==
  IF response.data # Null THEN Some(IntoJson(response.data)) ELSE None

\* the errors as JSON objects with message, locations and path
ResponseErrors(response) ==
  [i \in DOMAIN response.errors |->
     <<"json", [message |-> response.errors[i].message,
                locations |-> response.errors[i].locations,
                path |-> response.errors[i].path]>>]

StatusOK == 200
StatusBadRequest == 400

\* 400 as soon as there is an error, whatever the data
StatusOfErrorsOnly(data, errors) ==
  IF errors = <<>> THEN StatusOK ELSE StatusBadRequest

\* `if errors.is_empty() || data.is_some() { OK } else { BAD_REQUEST }`
StatusOf(data, errors) ==
  IF errors = <<>> \/ data # None THEN StatusOK ELSE StatusBadRequest

\* graphql_post_handler for one request whose execution gave `response`
GraphqlPostHandler(req, response) ==
  LET data == ResponseData(response)
      errors == ResponseErrors(response)
  IN [request |-> req,
      executed |-> response,
      status |-> StatusOf(data, errors),
      body |-> [data |-> data, errors |-> errors]]

\* a client posts a request to /graphql and gets the response
Post(req) ==
  /\ Len(http) < MaxPosts
  /\ \E response \in Execute(req) :
       http' = Append(http, GraphqlPostHandler(req, response))
  /\ UNCHANGED <<loaderVars, buildVars, wsVars, convVars>>

HttpInit == LoaderInit /\ BuildOff /\ HttpOff /\ WsOff /\ ConvOff

HttpNext == \E req \in GraphQLRequests : Post(req)

\* a router serving POST /graphql
HttpSpec == HttpInit /\ [][HttpNext]_vars

\* ------------------------------------------- server/axum.rs: handle_socket
\* Granularity.  tx, the mpsc channel, send_task and the socket's sink are
\* one FIFO pipe: send_task is woken by every message and writes it to the
\* socket, so a message is written in the step that sends it.  tx.send fails
\* only when rx is gone, that is after send_task has ended; a message whose
\* write fails is lost, and send_task ends on it.

\* most frames one client sends on a connection, most responses one
\* subscription stream yields
MaxFrames == 3
MaxStream == 2

\* the subscription ids a client uses
Ids == {"a", "b"}
NoId == ""

\* the streams execute_stream yields for the queries a client subscribes
\* with: the j-th response carries the data j; the streams without errors of
\* every length, and the longest one with errors in its first response
Streams ==
  {[j \in 1..n |-> [data |-> j, errors |-> FALSE]] : n \in 0..MaxStream}
  \cup {[j \in 1..MaxStream |-> [data |-> j, errors |-> (j = 1)]]}

\* what receiver.next() yields: a text frame holding a WsMessage, a text
\* frame that is none, another kind of frame, a close frame or socket error
ClientFrames ==
  {[type |-> t, id |-> NoId, payload |-> <<>>] :
     t \in {"connection_init", "ping", "invalid_text", "binary", "close"}}
  \cup {[type |-> "subscribe", id |-> i, payload |-> s] : i \in Ids, s \in Streams}
  \cup {[type |-> "complete", id |-> i, payload |-> <<>>] : i \in Ids}

\* the messages of the server
ConnectionAck == [type |-> "connection_ack", id |-> NoId, payload |-> <<>>]
Pong == [type |-> "pong", id |-> NoId, payload |-> <<>>]
InvalidMessage == [type |-> "error", id |-> NoId, payload |-> <<"Invalid message">>]
NextMsg(i, data) == [type |-> "next", id |-> i, payload |-> <<"data", data>>]
ErrorMsg(i, data) == [type |-> "error", id |-> i, payload |-> <<"errors", data>>]
CompleteMsg(i) == [type |-> "complete", id |-> i, payload |-> <<>>]

\* what can become of a message handed to tx.send
SendOutcomes == IF rxOpen THEN {"written", "write_failed"} ELSE {"send_failed"}

\* the message is written before the ones written so far
WrittenFirst(w, msg) == [w EXCEPT ![msg.id] = <<msg>> \o @]

\* sender.send(msg): the message follows the ones written so far
Written(w, msg) == [w EXCEPT ![msg.id] = Append(@, msg)]

\* tx.send(msg).await, with what send_task makes of the message
TxSend(msg, outcome) ==
  /\ outcome \in SendOutcomes
  /\ wire' = IF outcome = "written" THEN Written(wire, msg) ELSE wire
  /\ rxOpen' = (rxOpen /\ outcome = "written")
  /\ sendTask' = IF outcome = "write_failed" THEN "stopped" ELSE sendTask

\* the handle is dropped without abort: the task goes on (a JoinHandle
\* detaches its task when dropped)
AbortNot(ts, h) == ts

\* handle.abort(): a task that has not ended is cancelled; it stops at its
\* next yield point, which a task being polled on another worker reaches
\* only at the end of the step it is in
Abort(ts, h) ==
  [ts EXCEPT ![h].st = IF @ = "running" THEN "cancelling" ELSE @]

RECURSIVE AbortAll(_, _)
AbortAll(ts, hs) ==
  IF hs = {} THEN ts
  ELSE LET h == CHOOSE x \in hs : TRUE IN AbortAll(Abort(ts, h), hs \ {h})

\* subscriptions.remove(&id)
MapRemove(m, i) == [x \in (DOMAIN m) \ {i} |-> m[x]]
\* subscriptions.insert(id, handle)
MapInsert(m, i, h) == [x \in (DOMAIN m) \cup {i} |-> IF x = i THEN h ELSE m[x]]

\* tokio::spawn(execute_subscription(schema, sub_id, payload, tx))
NewTask(i, s) == [id |-> i, stream |-> s, pos |-> 0, st |-> "running"]

\* `Ok(Message::Close(_)) => break`, `Err(_) => break`, and the code after
\* the loop: every task of the table is aborted, then send_task
RecvClose(f) ==
  /\ f.type = "close"
  /\ open' = FALSE
  /\ tasks' = AbortAll(tasks, {subscriptions[i] : i \in DOMAIN subscriptions})
  /\ subscriptions' = <<>>
  /\ sendTask' = IF sendTask = "running" THEN "cancelling" ELSE sendTask
  /\ UNCHANGED <<initialized, rxOpen, wire>>

\* `Ok(_) => continue`, and the `_ => {}` arm, which a Subscribe before
\* ConnectionInit falls to
RecvIgnored(f) ==
  /\ \/ f.type = "binary"
     \/ f.type = "subscribe" /\ ~initialized
  /\ UNCHANGED <<open, initialized, subscriptions, tasks, rxOpen, sendTask, wire>>

\* a text frame that is no WsMessage is answered with an error message
RecvInvalid(f) ==
  /\ f.type = "invalid_text"
  /\ \E outcome \in SendOutcomes : TxSend(InvalidMessage, outcome)
  /\ UNCHANGED <<open, initialized, subscriptions, tasks>>

\* WsMessage::ConnectionInit
RecvConnectionInit(f) ==
  /\ f.type = "connection_init"
  /\ initialized' = TRUE
  /\ \E outcome \in SendOutcomes : TxSend(ConnectionAck, outcome)
  /\ UNCHANGED <<open, subscriptions, tasks>>

\* WsMessage::Ping
RecvPing(f) ==
  /\ f.type = "ping"
  /\ \E outcome \in SendOutcomes : TxSend(Pong, outcome)
  /\ UNCHANGED <<open, initialized, subscriptions, tasks>>

\* the arm has no guard: a Subscribe starts a task whether or not the
\* connection is initialized
RecvSubscribeUngated(f) ==
  /\ f.type = "subscribe"
  /\ LET removed == IF f.id \in DOMAIN subscriptions
                      THEN Abort(tasks, subscriptions[f.id]) ELSE tasks
         handle == Len(tasks) + 1
     IN /\ tasks' = Append(removed, NewTask(f.id, f.payload))
        /\ subscriptions' = MapInsert(MapRemove(subscriptions, f.id), f.id, handle)
  /\ UNCHANGED <<open, initialized, rxOpen, sendTask, wire>>

\* `WsMessage::Subscribe { id, payload } if initialized`
RecvSubscribe(f) ==
  /\ f.type = "subscribe"
  /\ initialized
  /\ LET removed == IF f.id \in DOMAIN subscriptions
                      THEN Abort(tasks, subscriptions[f.id]) ELSE tasks
         handle == Len(tasks) + 1
     IN /\ tasks' = Append(removed, NewTask(f.id, f.payload))
        /\ subscriptions' = MapInsert(MapRemove(subscriptions, f.id), f.id, handle)
  /\ UNCHANGED <<open, initialized, rxOpen, sendTask, wire>>

\* WsMessage::Complete
RecvComplete(f) ==
  /\ f.type = "complete"
  /\ IF f.id \in DOMAIN subscriptions
       THEN /\ tasks' = Abort(tasks, subscriptions[f.id])
            /\ subscriptions' = MapRemove(subscriptions, f.id)
       ELSE UNCHANGED <<tasks, subscriptions>>
  /\ UNCHANGED <<open, initialized, rxOpen, sendTask, wire>>

\* the history after frame f
Received(f) ==
  [frames |-> received.frames + 1,
   subscribed |->
     IF f.type = "subscribe" /\ initialized
       THEN [received.subscribed EXCEPT ![f.id] = @ + 1]
       ELSE received.subscribed,
   completed |->
     IF f.type = "complete" /\ received.subscribed[f.id] > 0
       THEN [received.completed EXCEPT ![f.id] = TRUE]
       ELSE received.completed,
   early |-> received.early \/ (f.type = "subscribe" /\ ~initialized)]

\* one turn of `while let Some(result) = receiver.next().await`
Recv(f) ==
  /\ open
  /\ received.frames < MaxFrames
  /\ received' = Received(f)
  /\ \/ RecvClose(f)
     \/ RecvIgnored(f)
     \/ RecvInvalid(f)
     \/ RecvConnectionInit(f)
     \/ RecvPing(f)
     \/ RecvSubscribe(f)
     \/ RecvComplete(f)
  /\ UNCHANGED <<loaderVars, buildVars, http, convVars>>

\* ------------------------------------ server/axum.rs: execute_subscription
Live(h) == tasks[h].st \in {"running", "cancelling"}

\* the future of a cancelled task is dropped, its stream with it
Dropped(t) == [id |-> t.id, stream |-> <<>>, pos |-> 0, st |-> "aborted"]

\* the message for one response of the stream
StreamMsg(i, response) ==
  IF response.errors THEN ErrorMsg(i, response.data) ELSE NextMsg(i, response.data)

\* one turn of `while let Some(response) = stream.next().await`: the message
\* is sent; a failed send breaks the loop, and the send of Complete after the
\* loop fails as well; a cancelled task stops after the send
TaskNext(h) ==
  /\ h \in DOMAIN tasks
  /\ Live(h)
  /\ tasks[h].pos < Len(tasks[h].stream)
  /\ LET t == tasks[h]
     IN \E outcome \in SendOutcomes :
          /\ TxSend(StreamMsg(t.id, t.stream[t.pos + 1]), outcome)
          /\ tasks' = IF outcome = "send_failed"
                        THEN [tasks EXCEPT ![h].st = "finished"]
                      ELSE IF t.st = "cancelling"
                        THEN [tasks EXCEPT ![h] = Dropped(t)]
                      ELSE [tasks EXCEPT ![h].pos = @ + 1]
  /\ UNCHANGED <<open, initialized, subscriptions, received>>
  /\ UNCHANGED <<loaderVars, buildVars, http, convVars>>

\* the stream has ended: Complete is sent and the task returns
TaskComplete(h) ==
  /\ h \in DOMAIN tasks
  /\ Live(h)
  /\ tasks[h].pos = Len(tasks[h].stream)
  /\ \E outcome \in SendOutcomes : TxSend(CompleteMsg(tasks[h].id), outcome)
  /\ tasks' = [tasks EXCEPT ![h].st = "finished"]
  /\ UNCHANGED <<open, initialized, subscriptions, received>>
  /\ UNCHANGED <<loaderVars, buildVars, http, convVars>>

\* an aborted task that was not being polled is dropped
TaskStop(h) ==
  /\ h \in DOMAIN tasks
  /\ tasks[h].st = "cancelling"
  /\ tasks' = [tasks EXCEPT ![h] = Dropped(tasks[h])]
  /\ UNCHANGED <<open, initialized, subscriptions, rxOpen, sendTask, wire, received>>
  /\ UNCHANGED <<loaderVars, buildVars, http, convVars>>

\* --------------------------------------------- server/axum.rs: send_task
\* the aborted send_task reaches a yield point and is dropped, rx with it
SendTaskStop ==
  /\ sendTask = "cancelling"
  /\ sendTask' = "stopped"
  /\ rxOpen' = FALSE
  /\ UNCHANGED <<open, initialized, subscriptions, tasks, wire, received>>
  /\ UNCHANGED <<loaderVars, buildVars, http, convVars>>

\* the socket was upgraded: handle_socket has split it, made the channel and
\* spawned send_task
WsInit ==
  /\ LoaderInit /\ BuildOff /\ HttpOff /\ ConvOff
  /\ open = TRUE
  /\ initialized = FALSE
  /\ subscriptions = <<>>
  /\ tasks = <<>>
  /\ rxOpen = TRUE
  /\ sendTask = "running"
  /\ wire = NoWire
  /\ received = NoneReceived

TaskStep(h) == TaskNext(h) \/ TaskComplete(h)

WsNext ==
  \/ \E f \in ClientFrames : Recv(f)
  \/ \E h \in 1..MaxFrames : TaskStep(h)
  \/ \E h \in 1..MaxFrames : TaskStop(h)
  \/ SendTaskStop

\* one WebSocket connection
WsSpec == WsInit /\ [][WsNext]_vars

\* ------------------------------- context.rs: ToConstValue / FromConstValue
\* Integers are modelled with IntBits bits in place of 64: the i64 values are
\* -2^(IntBits-1) .. 2^(IntBits-1)-1, the u64 values 0 .. 2^IntBits-1.
IntBits == 3
\* most elements of a Vec or a ConstValue::List
MaxLen == 2

I64Min == -(2 ^ (IntBits - 1))
I64Max == 2 ^ (IntBits - 1) - 1
U64Max == 2 ^ IntBits - 1
I64 == I64Min..I64Max

\* the Rust types of the conversions: a type constructor and its arguments
TI64 == <<"i64">>
TBool == <<"bool">>
TString == <<"String">>
TOption(t) == <<"Option">> \o t
TVec(t) == <<"Vec">> \o t
ConvTypes == {TI64, TBool, TString, TOption(TI64), TVec(TI64)}

RECURSIVE SeqsUpTo(_, _)
SeqsUpTo(S, n) ==
  IF n = 0 THEN {<<>>}
  ELSE SeqsUpTo(S, n - 1) \cup {Append(q, x) : q \in SeqsUpTo(S, n - 1), x \in S}

\* the values of a type
ValuesOf(ty) ==
  IF ty = TI64 THEN I64
  ELSE IF ty = TBool THEN BOOLEAN
  ELSE IF ty = TString THEN {"", "hello"}
  ELSE IF ty = TOption(TI64) THEN {None} \cup {Some(n) : n \in I64}
  ELSE SeqsUpTo(I64, MaxLen)

\* serde_json::Number: PosInt(u64), NegInt(i64) or Float(f64)
PosInt(n) == <<"PosInt", n>>
NegInt(n) == <<"NegInt", n>>
Float(x) == <<"Float", x>>

\* async_graphql ConstValue
CNumber(n) == <<"Number", n>>
CBoolean(b) == <<"Boolean", b>>
CString(s) == <<"String", s>>
CList(items) == <<"List", items>>
CEnum(name) == <<"Enum", name>>

\* `n as u64`: the bits of the i64 read as unsigned
NumberFromCast(n) == PosInt(n % (2 ^ IntBits))

\* `impl From<i64> for Number`: NegInt below zero, PosInt otherwise
NumberFrom(n) == IF n < 0 THEN NegInt(n) ELSE PosInt(n)

\* Number::as_i64: a PosInt above i64::MAX and a Float have none
as_i64(n) ==
  IF n[1] = "PosInt" THEN (IF n[2] <= I64Max THEN Some(n[2]) ELSE None)
  ELSE IF n[1] = "NegInt" THEN Some(n[2])
  ELSE None

\* the to_const_value of the impls for i64, bool, String, Option<T>, Vec<T>
RECURSIVE to_const_value(_, _)
to_const_value(ty, v) ==
  IF ty[1] = "i64" THEN CNumber(NumberFrom(v))
  ELSE IF ty[1] = "bool" THEN CBoolean(v)
  ELSE IF ty[1] = "String" THEN CString(v)
  ELSE IF ty[1] = "Option"
    THEN (IF v = None THEN Null ELSE to_const_value(Tail(ty), v[2]))
  ELSE CList([j \in DOMAIN v |-> to_const_value(Tail(ty), v[j])])

\* `items.iter().map(T::from_const_value).collect()`: the first Err, or the
\* Vec of the values
RECURSIVE Collect(_)
Collect(rs) ==
  IF rs = <<>> THEN Ok(<<>>)
  ELSE IF IsErr(rs[1]) THEN rs[1]
  ELSE LET rest == Collect(Tail(rs))
       IN IF IsErr(rest) THEN rest ELSE Ok(<<rs[1][2]>> \o rest[2])

\* the from_const_value of the impls for i64, bool, String, Option<T>, Vec<T>
RECURSIVE from_const_value(_, _)
from_const_value(ty, value) ==
  IF ty[1] = "i64"
    THEN (IF value[1] = "Number"
            THEN (IF as_i64(value[2]) = None THEN Err("Expected i64")
                  ELSE Ok(as_i64(value[2])[2]))
            ELSE Err("Expected number"))
  ELSE IF ty[1] = "bool"
    THEN (IF value[1] = "Boolean" THEN Ok(value[2]) ELSE Err("Expected boolean"))
  ELSE IF ty[1] = "String"
    THEN (IF value[1] = "String" THEN Ok(value[2]) ELSE Err("Expected string"))
  ELSE IF ty[1] = "Option"
    THEN (IF value = Null THEN Ok(None)
          ELSE LET r == from_const_value(Tail(ty), value)
               IN IF IsErr(r) THEN r ELSE Ok(Some(r[2])))
  ELSE (IF value[1] = "List"
          THEN Collect([j \in DOMAIN value[2] |-> from_const_value(Tail(ty), value[2][j])])
          ELSE Err("Expected list"))

\* scalar ConstValues of every shape, among them numbers no i64 holds
ScalarConsts ==
  {Null, CBoolean(TRUE), CString("hello"), CEnum("RED"),
   CNumber(PosInt(1)), CNumber(PosInt(I64Max)), CNumber(PosInt(U64Max)),
   CNumber(NegInt(I64Min)), CNumber(Float("1.5"))}

\* the ConstValues handed to from_const_value
ConstValues ==
  ScalarConsts
    \cup {CList(q) : q \in SeqsUpTo({Null, CBoolean(TRUE), CNumber(PosInt(1)),
                                    CNumber(NegInt(-1))}, MaxLen)}

\* a value is about to be converted to a ConstValue and back, or a
\* ConstValue is about to be converted to a type
ConvInit ==
  /\ LoaderInit /\ BuildOff /\ HttpOff /\ WsOff
  /\ cvType \in ConvTypes
  /\ cvResult = NoValue
  /\ \/ /\ cvValue \in {<<"value", v>> : v \in ValuesOf(cvType)}
        /\ cvConst = NoValue
     \/ /\ cvValue = NoValue
        /\ cvConst \in {<<"const", c>> : c \in ConstValues}

\* v.to_const_value()
ToConst ==
  /\ cvValue # NoValue
  /\ cvConst = NoValue
  /\ cvConst' = <<"const", to_const_value(cvType, cvValue[2])>>
  /\ UNCHANGED <<cvType, cvValue, cvResult>>
  /\ UNCHANGED <<loaderVars, buildVars, http, wsVars>>

\* T::from_const_value(&value)
FromConst ==
  /\ cvConst # NoValue
  /\ cvResult = NoValue
  /\ cvResult' = from_const_value(cvType, cvConst[2])
  /\ UNCHANGED <<cvType, cvValue, cvConst>>
  /\ UNCHANGED <<loaderVars, buildVars, http, wsVars>>

ConvNext == ToConst \/ FromConst

\* one conversion
ConvSpec == ConvInit /\ [][ConvNext]_vars

\* ------------------------------------------------------ derived notions
\* the call has pushed its key (it belongs to the window open at that time)
Registered(c) == wid[c] >= 0
\* the call has pushed its key and its sender
FullyRegistered(c) == pc[c] \in {"schedule", "spawn", "await", "cancelled"}
\* the flush task has swapped the pending batch out
Swapped(t) == tw[t] >= 0
\* the calls that registered in window w (between swap w - 1 and swap w)
WindowCalls(w) == {c \in Calls : wid[c] = w}
\* the calls whose sender is in the sequence
SenderCalls(senders) == {senders[i][2] : i \in DOMAIN senders}
\* the fetch invocations made for window w
FetchesOf(w) == {i \in DOMAIN fetchLog : tw[fetchLog[i].task] = w}
\* the j-th call of a set of calls, in the order the calls registered
NthCall(cs, j) == CHOOSE c \in cs : Cardinality({d \in cs : d < c}) = j - 1
\* the channel holds a value
Sent(c) == chan[c] # Open /\ chan[c] # Closed
\* the fetch of task t returned a map and the loop ran
Fetched(t) == fpc[t] = "done" /\ batch[t].keys # <<>>

\* ------------------------------------------------------------------ C1
\* C1: every window in which N >= 1 calls registered has no fetch invocation
\* before its flush swaps the batch out and exactly one from then on, and
\* that invocation's key list has at least N keys.
C1_Coalescing ==
  \A w \in 0..MaxCalls :
    LET N == Cardinality(WindowCalls(w))
    IN N >= 1 =>
         IF w < epoch
           THEN /\ Cardinality(FetchesOf(w)) = 1
                /\ \A i \in FetchesOf(w) : Len(fetchLog[i].keys) >= N
           ELSE FetchesOf(w) = {}

\* a window of two or more calls was flushed and fetched
C1_Witness ==
  \E i \in DOMAIN fetchLog :
    /\ Cardinality(WindowCalls(tw[fetchLog[i].task])) >= 2
    /\ Len(fetchLog[i].keys) >= 2

\* ------------------------------------------------------------------ C2
\* C2: a value held by a call's channel, or returned by the call, is the value
\* that the fetch result of the call's own window maps the call's own key to.
C2_FanOut ==
  \A c \in Calls :
    Sent(c) =>
      \E t \in Calls :
        /\ tw[t] = wid[c]
        /\ Fetched(t)
        /\ key[c] \in DOMAIN results[t]
        /\ chan[c][2] = results[t][key[c]]
        /\ (Resolved(c) => Returned(c) = Some(results[t][key[c]]))

\* two calls of one window with different keys both returned Some
C2_Witness ==
  \E c1, c2 \in Calls :
    /\ wid[c1] = wid[c2]
    /\ key[c1] # key[c2]
    /\ Resolved(c1) /\ Resolved(c2)
    /\ Returned(c1) # None /\ Returned(c2) # None

\* ------------------------------------------------------------------ C3
\* C3: once the fetch of a window has returned a map that omits key k and the
\* flush task has run its loop to the end, the channel of every call of that
\* window for k is closed without a value (the call is not left pending), and
\* such a call that returned has returned None.
C3_MissingKey ==
  \A t \in Calls :
    Fetched(t) =>
      \A c \in SenderCalls(batch[t].senders) :
        key[c] \notin DOMAIN results[t] =>
          /\ chan[c] = Closed
          /\ (Resolved(c) => Returned(c) = None)

\* a call returned None although a call of the same window got a value
C3_Witness ==
  \E t \in Calls, c, d \in Calls :
    /\ Fetched(t)
    /\ wid[c] = tw[t] /\ wid[d] = tw[t]
    /\ key[c] \notin DOMAIN results[t]
    /\ Resolved(c) /\ Returned(c) = None
    /\ Resolved(d) /\ Returned(d) # None

\* ------------------------------------------------------------------ C4
\* the call is over: it returned, or its caller dropped it
Settled(c) == Resolved(c) \/ pc[c] = "cancelled"

\* C4: under the scheduler's fairness, and with every fetch future completing,
\* from some point on every call that registered its key has returned (Some or
\* None) or was dropped by its caller: no registered call waits forever.
C4_LoadLive == <>[](\A c \in Calls : Registered(c) => Settled(c))

\* a call that registered after the first swap has returned
C4_Witness ==
  \E c \in Calls : wid[c] >= 1 /\ Resolved(c)

\* ------------------------------------------------------------------ C5
\* the keys and the senders of a batch are the same calls, index by index
Paired(b) ==
  /\ Len(b.keys) = Len(b.senders)
  /\ \A i \in DOMAIN b.senders : b.senders[i][1] = b.keys[i]
\* the places that hold the sender of call c: pending cells and taken batches
Holders(c) ==
  {<<"pending", x>> : x \in {y \in Cells : c \in SenderCalls(pending[y].senders)}}
    \cup {<<"batch", t>> : t \in {u \in Calls : Swapped(u) /\ c \in SenderCalls(batch[u].senders)}}
\* the number of entries of call c in a sender sequence
Entries(senders, c) == Cardinality({i \in DOMAIN senders : senders[i][2] = c})

\* C5: every batch a flush swapped out holds, index by index, the keys and the
\* senders of exactly the calls of its window; every call that pushed key and
\* sender has its sender in exactly one place, once; and its key is in the key
\* list of exactly one fetch invocation once its window was swapped, of none
\* before.
C5_NoLostCall ==
  /\ \A t \in Calls :
       Swapped(t) =>
         /\ Paired(batch[t])
         /\ SenderCalls(batch[t].senders) = WindowCalls(tw[t])
         /\ \A i \in FetchesOf(tw[t]) : fetchLog[i].keys = batch[t].keys
  /\ \A c \in Calls :
       FullyRegistered(c) =>
         /\ Cardinality(Holders(c)) = 1
         /\ \A x \in Cells : Entries(pending[x].senders, c) <= 1
         /\ \A t \in Calls : Entries(batch[t].senders, c) <= 1
         /\ \A t \in Calls : c \in SenderCalls(batch[t].senders) => key[c] = batch[t].keys[
              CHOOSE i \in DOMAIN batch[t].senders : batch[t].senders[i][2] = c]
         /\ Cardinality({i \in DOMAIN fetchLog :
                           c \in SenderCalls(batch[fetchLog[i].task].senders)})
              = IF wid[c] < epoch THEN 1 ELSE 0

\* a flush fired between two registrations: one call made it into the
\* window that was fetched, the next call fell into the following window
C5_Witness ==
  \E t \in Calls, c, d \in Calls :
    /\ c # t /\ Swapped(t) /\ wid[c] = tw[t]
    /\ fpc[t] = "fetch"
    /\ wid[d] = tw[t] + 1 /\ pc[d] = "await"

\* ------------------------------------------------------------------ C6
\* C6: a call that registered after the swap of flush task t is not in t's
\* batch and never holds a value of t's fetch; once it has released the lock
\* a flush task other than t is scheduled for its window (waiting, or the one
\* that swapped that window), and once that window was swapped it has a fetch
\* invocation of its own, made by that task.
C6_WindowReopen ==
  \A t \in Calls, c \in Calls :
    (Swapped(t) /\ wid[c] > tw[t]) =>
      /\ c \notin SenderCalls(batch[t].senders)
      /\ (Sent(c) => chan[c][2][1] # t)
      /\ (pc[c] \in {"await", "cancelled"} =>
            \E u \in Calls \ {t} :
              /\ fpc[u] # "none"
              /\ IF wid[c] < epoch THEN tw[u] = wid[c] ELSE ~Swapped(u)
              /\ (wid[c] < epoch =>
                    \E i \in DOMAIN fetchLog :
                      fetchLog[i].task = u /\ c \in SenderCalls(batch[u].senders)))

\* a call for a key the earlier window already requested registered after
\* the swap, was answered by its own window's fetch and returned a value while
\* the fetch of the earlier window was still in flight
C6_Witness ==
  \E t \in Calls, c \in Calls :
    /\ fpc[t] = "fetch"
    /\ wid[c] > tw[t]
    /\ \E i \in DOMAIN batch[t].keys : batch[t].keys[i] = key[c]
    /\ Resolved(c) /\ Returned(c) # None

\* ------------------------------------------------------------------ C7
\* C7: the key list of every fetch invocation is the list of the keys of the
\* window's calls in registration order, one entry per call, duplicates
\* included; two calls of one window with the same key have separate channels
\* and, once the fetch returned, both channels hold the same value or both are
\* closed (unless a caller dropped its receiver).
C7_Duplicates ==
  /\ \A i \in DOMAIN fetchLog :
       LET cs == WindowCalls(tw[fetchLog[i].task])
           ks == fetchLog[i].keys
       IN /\ Len(ks) = Cardinality(cs)
          /\ \A j \in DOMAIN ks : ks[j] = key[NthCall(cs, j)]
  /\ \A t \in Calls, c, d \in Calls :
       (/\ Fetched(t) /\ c # d
        /\ wid[c] = tw[t] /\ wid[d] = tw[t] /\ key[c] = key[d]
        /\ pc[c] # "cancelled" /\ pc[d] # "cancelled") => chan[c] = chan[d]

\* load(1), load(2), load(1) in one window: one fetch with keys 1, 2, 1 and
\* the three calls returned v1, v2, v1
C7_Witness ==
  /\ Len(fetchLog) = 1
  /\ fetchLog[1].keys = <<1, 2, 1>>
  /\ \A c \in 1..3 : Resolved(c) /\ wid[c] = 0
  /\ Returned(1) = Some(Val(fetchLog[1].task, 1))
  /\ Returned(2) = Some(Val(fetchLog[1].task, 2))
  /\ Returned(3) = Returned(1)

\* ------------------------------------------------------------------ C8
\* C8: whatever callers of a window dropped their futures, the window's batch
\* is fetched once with the keys of all its calls, the dropped ones included,
\* at the positions of their senders; and once the fetch has returned and the
\* loop is over, every call of the window that was not dropped and whose key
\* is in the result holds that key's value.
C8_Cancellation ==
  /\ \A c \in Calls :
       (pc[c] = "cancelled" /\ wid[c] < epoch) =>
         /\ Cardinality(FetchesOf(wid[c])) = 1
         /\ \A i \in FetchesOf(wid[c]) :
              \E j \in DOMAIN fetchLog[i].keys :
                /\ fetchLog[i].keys[j] = key[c]
                /\ batch[fetchLog[i].task].senders[j] = <<key[c], c>>
  /\ \A t \in Calls :
       Fetched(t) =>
         \A c \in SenderCalls(batch[t].senders) :
           (pc[c] # "cancelled" /\ key[c] \in DOMAIN results[t]) =>
             chan[c] = <<"sent", results[t][key[c]]>>

\* the caller that scheduled the flush dropped its future, its key was in the
\* fetch result, and a later call of the same window returned its own value
C8_Witness ==
  \E t \in Calls, d \in Calls :
    /\ Fetched(t)
    /\ pc[t] = "cancelled" /\ wid[t] = tw[t]
    /\ key[t] \in DOMAIN results[t]
    /\ d > t /\ wid[d] = tw[t]
    /\ Resolved(d) /\ Returned(d) = Some(results[t][key[d]])

\* ------------------------------------------------------------------ C9
\* C9 (load_with): every window with calls has no fetch invocation before its
\* swap and exactly one after it; that invocation is made with the function
\* supplied by the window's first call and with the keys of all the window's
\* calls; the function of a call that was not the first of its window is never
\* invoked.
C9_SimpleFirstFn ==
  /\ \A w \in 0..MaxCalls :
       LET cs == WindowCalls(w)
       IN cs # {} =>
            IF w < epoch
              THEN /\ Cardinality(FetchesOf(w)) = 1
                   /\ \A i \in FetchesOf(w) :
                        /\ fetchLog[i].fn = BatchFn(NthCall(cs, 1))
                        /\ Len(fetchLog[i].keys) = Cardinality(cs)
                        /\ \A j \in DOMAIN fetchLog[i].keys :
                             fetchLog[i].keys[j] = key[NthCall(cs, j)]
              ELSE FetchesOf(w) = {}
  /\ \A c \in Calls :
       (Registered(c) /\ c # NthCall(WindowCalls(wid[c]), 1)) =>
         \A i \in DOMAIN fetchLog : fetchLog[i].fn # BatchFn(c)

\* a window of two load_with calls was fetched with the first call's function
\* and both calls returned a value
C9_Witness ==
  \E i \in DOMAIN fetchLog :
    LET cs == WindowCalls(tw[fetchLog[i].task])
    IN /\ Cardinality(cs) >= 2
       /\ fetchLog[i].fn = BatchFn(NthCall(cs, 1))
       /\ \A c \in cs : Resolved(c) /\ Returned(c) # None

\* ------------------------------------------------------------------ C10
\* C10: two calls made through different handles of the loader that pushed
\* key and sender with no swap in between are in one and the same batch (the
\* same pending cell, or the batch of the same flush task), and at most one
\* fetch invocation covers them.
C10_SharedPending ==
  \A c, d \in Calls :
    (/\ HandleOf(c) # HandleOf(d)
     /\ FullyRegistered(c) /\ FullyRegistered(d)
     /\ wid[c] = wid[d]) =>
      /\ \/ \E x \in Cells : {c, d} \subseteq SenderCalls(pending[x].senders)
         \/ \E t \in Calls : Swapped(t) /\ {c, d} \subseteq SenderCalls(batch[t].senders)
      /\ Cardinality({i \in DOMAIN fetchLog :
                        {c, d} \cap SenderCalls(batch[fetchLog[i].task].senders) # {}}) <= 1

\* calls through the loader and through a clone of it were answered by one fetch
C10_Witness ==
  \E c, d \in Calls :
    /\ HandleOf(c) # HandleOf(d)
    /\ wid[c] = wid[d]
    /\ Resolved(c) /\ Resolved(d)
    /\ Returned(c) # None /\ Returned(d) # None
    /\ Len(fetchLog) = 1

\* ------------------------------------------------------------------ C11
\* C11: once the fetch of a window has returned and the loop is over, every
\* load_or_default call of the window that was not dropped is resolved: with
\* the value the fetch result has for its key when the result contains the key,
\* with the default value when it omits it; and whenever the load inside has
\* resolved (to Some or to None, also after a fetch panic) load_or_default has
\* a result that is a value, never the absent marker.
C11_LoadOrDefault ==
  /\ \A t \in Calls :
       Fetched(t) =>
         \A c \in SenderCalls(batch[t].senders) :
           pc[c] # "cancelled" =>
             /\ Resolved(c)
             /\ LoadOrDefaultReturned(c) =
                  IF key[c] \in DOMAIN results[t] THEN results[t][key[c]] ELSE DefaultValue
  /\ \A c \in Calls :
       Resolved(c) =>
         /\ LoadOrDefaultReturned(c) # None
         /\ (Returned(c) = None => LoadOrDefaultReturned(c) = DefaultValue)
         /\ (Returned(c) # None => Some(LoadOrDefaultReturned(c)) = Returned(c))

\* in one window a load_or_default call got the default value for a key the
\* result omitted and another got the fetched value of its key
C11_Witness ==
  \E t \in Calls, c, d \in Calls :
    /\ Fetched(t)
    /\ wid[c] = tw[t] /\ wid[d] = tw[t]
    /\ Resolved(c) /\ key[c] \notin DOMAIN results[t]
    /\ LoadOrDefaultReturned(c) = DefaultValue
    /\ Resolved(d) /\ key[d] \in DOMAIN results[t]
    /\ LoadOrDefaultReturned(d) = Val(t, key[d])

\* ------------------------------------- notions of the schema description
\* the List-tagged containment edges of the module: the Vec fields of the
\* structs and the Vec-returning resolvers of the impl blocks
ListEdges ==
  {[container |-> e.owner, member |-> e.member.name, target |-> e.member.ty.name,
    kind |-> "field"] :
     e \in {x \in Range(AllFields(module.structs)) : x.member.ty.vec}}
  \cup
  {[container |-> e.owner, member |-> e.member.name, target |-> e.member.ret.name,
    kind |-> "resolver"] :
     e \in {x \in Range(AllMethods(module.impls)) : x.member.ret.vec}}

\* the types that are the target of at least one List edge
ListReachable == {e.target : e \in ListEdges}

\* the root types: the types named Query or Mutation and the types marked
\* as query root or mutation root
RootTypes ==
  {"Query", "Mutation"}
    \cup {s.name : s \in {x \in Range(module.structs) : x.attr \in {"query", "mutation"}}}

\* no type is marked or named as the query root
NoQueryRoot ==
  \A s \in Range(module.structs) : s.attr # "query" /\ s.name # "Query"

\* the resolvers of the module, each with its container type
Resolvers == Range(AllMethods(module.impls))

\* an unbatched list resolver
UnbatchedList(r) == r.member.ret.vec /\ r.member.batch = "none"

\* a violation: an unbatched list resolver of a list-reachable non-root type
Violating(r) ==
  /\ r.owner \notin RootTypes
  /\ r.owner \in ListReachable
  /\ UnbatchedList(r)

Violations == {r \in Resolvers : Violating(r)}

\* a resolver whose batch attribute has no key
BadBatch(r) == r.member.batch = "nokey"

\* the description was parsed and the N+1 analysis has run
AnalysisDone == Len(ran) >= 2 /\ ran[2] = "validate"
\* the N+1 analysis returned its error
AnalysisFailed == ran = <<"parse", "validate">> /\ bpc \in {"emit", "done"}
\* the N+1 analysis returned Ok
AnalysisPassed == AnalysisDone /\ ~AnalysisFailed
\* the error of the N+1 analysis names resolver r
Reported(r) ==
  /\ AnalysisFailed
  /\ result[2].type_name = r.owner
  /\ result[2].method_name = r.member.name

\* ------------------------------------------------------------------ C12
\* C12: when the N+1 analysis has run on a description with two or more
\* distinct violating resolvers, it has failed and its result names every one of
\* them.
C12_Exhaustive ==
  (AnalysisDone /\ Cardinality(Violations) >= 2) =>
    /\ AnalysisFailed
    /\ \A r \in Violations : Reported(r)

\* ------------------------------------------------------------------ C13
\* C13: the N+1 analysis fails the build if and only if some resolver of a
\* non-root container type is a violation (its container is list-reachable,
\* it returns a list, it has no batch configuration), and the resolver it
\* reports is such a resolver.
C13_ViolationCondition ==
  AnalysisDone =>
    /\ AnalysisFailed <=> Violations # {}
    /\ AnalysisFailed => \E r \in Violations : Reported(r)

\* ------------------------------------------------------------------ C14
\* struct Author { posts: Vec<Post> } and impl Post { fn comments() -> Vec<Comment> }
AuthorPostScenario ==
  module = [structs |-> <<[name |-> "Author", attr |-> "none",
                           fields |-> <<[name |-> "posts", ty |-> VecOf("Post")]>>]>>,
            impls |-> <<[type_name |-> "Post",
                         methods |-> <<[name |-> "comments", batch |-> "none",
                                        ret |-> VecOf("Comment")]>>]>>]

C15_RootExempt ==
  AnalysisFailed => result[2].type_name \notin RootTypes

\* ------------------------------------------------------------------ C16
\* the type resolver r returns a list of is the target of a List edge other
\* than r's own
TargetElsewhere(r) ==
  \E e \in ListEdges :
    /\ e.target = r.member.ret.name
    /\ ~(e.kind = "resolver" /\ e.container = r.owner /\ e.member = r.member.name)

\* C16 as stated: an unbatched list resolver whose returned type is the target
\* of no other List edge of the graph is not reported as a violation.
C16_AsStated ==
  \A r \in Resolvers :
    (AnalysisDone /\ UnbatchedList(r) /\ ~TargetElsewhere(r)) => ~Reported(r)

\* C16, amended: an unbatched list resolver whose container type is the
\* target of no List edge of the graph (its own resolvers' edges included) is
\* not reported as a violation.
C16_Exemption ==
  \A r \in Resolvers :
    (AnalysisDone /\ UnbatchedList(r) /\ r.owner \notin ListReachable) => ~Reported(r)

\* the analysis passed a description with an unbatched list resolver on a
\* non-root type that no List edge targets
C16_Witness ==
  /\ AnalysisPassed
  /\ \E r \in Resolvers :
       /\ UnbatchedList(r)
       /\ r.owner \notin RootTypes
       /\ r.owner \notin ListReachable

\* ------------------------------------------------------------------ C17
\* C17: the expansion of a parsed description without a query root ends with
\* the missing-query-root error and with no schema.
C17_MissingQueryRoot ==
  (bpc = "done" /\ AnalysisDone /\ NoQueryRoot) =>
    /\ output.kind = "compile_error"
    /\ output.error = MissingQueryRoot(parsed)

\* ------------------------------------------------------------------ C18
\* C18: the expansion of a parsed description that has no query root and has
\* an N+1 violation returns the missing-query-root error, not the N+1 error.
C18_RootCheckFirst ==
  (bpc \in {"emit", "done"} /\ parsed # NoParsed /\ NoQueryRoot /\ Violations # {}) =>
    result = Err(MissingQueryRoot(parsed))

\* ------------------------------------------------------------------ C19
\* C19: the code generation runs only after parsing and the N+1 analysis
\* returned Ok; when parsing, the analysis or the query-root check returned an
\* error no later stage runs, expand returns that error, and the macro hands
\* back the compile error and no schema; tokens with a schema are handed back
\* only when all three succeeded.
C19_AbortOnError ==
  /\ (\E i \in DOMAIN ran : ran[i] = "generate") =>
       /\ ran = <<"parse", "validate", "generate">>
       /\ IsOk(parse_module(module))
       /\ IsOk(validate_n_plus_one(parsed))
  /\ IsErr(parse_module(module)) =>
       /\ parsed = NoParsed
       /\ bpc # "parse" => (ran = <<"parse">> /\ result = parse_module(module))
  /\ (AnalysisDone /\ IsErr(validate_n_plus_one(parsed))) =>
       (ran = <<"parse", "validate">> /\ result = validate_n_plus_one(parsed))
  /\ bpc = "done" =>
       IF IsErr(result)
         THEN output = [kind |-> "compile_error", error |-> result[2]]
         ELSE /\ output.kind = "tokens"
              /\ output.tokens.schema_struct.query = query_type(parsed)[2].name
              /\ ran = <<"parse", "validate", "generate">>
              /\ ~NoQueryRoot

\* the macro handed back the N+1 compile error, and no code was generated
C19_Witness ==
  /\ bpc = "done"
  /\ ran = <<"parse", "validate">>
  /\ output.kind = "compile_error"
  /\ ~NoQueryRoot

\* ------------------------------------------------------------------ C20
\* C20 as stated: a description with a resolver whose batch attribute has no
\* key fails in parse_module, before the analysis runs, and the error refers to
\* the name of such a resolver (in its message or in the tokens it spans).
C20_AsStated ==
  ((\E r \in Resolvers : BadBatch(r)) /\ bpc # "parse") =>
    /\ ran = <<"parse">>
    /\ IsErr(result)
    /\ \E r \in Resolvers :
         /\ BadBatch(r)
         /\ r.member.name \in Range(result[2].message) \cup Range(result[2].span)

\* C20, amended: a description with a resolver whose batch attribute has no
\* key fails in parse_module, before the analysis runs, with an error spanned
\* on that batch attribute (its message does not name the resolver); no
\* ParsedModule exists, so the resolver is never taken as batched, and the
\* macro hands back the compile error.
C20_BatchKeyRequired ==
  ((\E r \in Resolvers : BadBatch(r)) /\ bpc # "parse") =>
    /\ ran = <<"parse">>
    /\ IsErr(result)
    /\ result[2].span = BatchAttrTokens("nokey")
    /\ parsed = NoParsed
    /\ bpc = "done" => output = [kind |-> "compile_error", error |-> result[2]]

\* the build of a description with a keyless batch attribute on a list
\* resolver of a list-reachable type has ended with the compile error
C20_Witness ==
  /\ bpc = "done"
  /\ output.kind = "compile_error"
  /\ \E r \in Resolvers :
       BadBatch(r) /\ r.member.ret.vec /\ r.owner \in ListReachable \ RootTypes

\* ------------------------------------------------------------------ C21
\* the text of a List edge as the note line gives it
EdgeText(e) ==
  IF e.kind = "field"
    THEN Cat(<<e.container, ".", e.member, ": Vec<", e.target, ">">>)
    ELSE Cat(<<e.container, "::", e.member, "() -> Vec<", e.target, ">">>)

\* the message names the type and the resolver, as type::resolver
MessageNames(msg, t, m) ==
  \E i \in 1..(Len(msg) - 2) : msg[i] = t /\ msg[i + 1] = "::" /\ msg[i + 2] = m

\* the message has a note line for type t that lists exactly the List edges
\* into t
MessageNotes(msg, t) ==
  \E i \in 1..(Len(msg) - 3) :
    /\ msg[i] = "\n   = note: '"
    /\ msg[i + 1] = t
    /\ msg[i + 2] = "' appears in list context via: "
    /\ \E srcs \in {result[2].context_sources} :
         /\ msg[i + 3] = Join(srcs, ", ")
         /\ Range(srcs) = {EdgeText(e) : e \in {x \in ListEdges : x.target = t}}
         /\ srcs # <<>>

\* the message has the help line that suggests a batch attribute with a key
MessageHelps(msg) ==
  \E i \in DOMAIN msg :
    msg[i] = "\n   = help: add #[batch(key = \"field\")] to enable batching"

\* the error message covers violation r
MessageCovers(msg, r) ==
  /\ MessageNames(msg, r.owner, r.member.name)
  /\ MessageNotes(msg, r.owner)
  /\ MessageHelps(msg)

\* C21: when the N+1 analysis has failed, its error message includes, for
\* each violating resolver of the description, the type name and the resolver
\* name, a note line listing every List edge into that type, and the help line
\* suggesting a batch attribute with a key.
C21_MessagePerViolation ==
  AnalysisFailed => \A r \in Violations : MessageCovers(result[2].message, r)

\* ------------------------------------------------------------------ C22
\* C22: every response of POST /graphql has status 200 when the execution
\* produced no errors or produced non-null data, and status 400 exactly when
\* it produced at least one error and null data; a 400 response carries a
\* non-empty errors array, and a query on a nonexistent field or with a syntax
\* error gets 400.
C22_PostStatus ==
  \A i \in DOMAIN http :
    LET r == http[i]
        noErrors == r.executed.errors = <<>>
        nullData == r.executed.data = Null
    IN /\ (noErrors \/ ~nullData) => r.status = StatusOK
       /\ r.status = StatusBadRequest <=> (~noErrors /\ nullData)
       /\ r.status = StatusBadRequest =>
            /\ Len(r.body.errors) >= 1
            /\ Len(r.body.errors) = Len(r.executed.errors)
            /\ r.body.data = None
       /\ r.request.query \in {"nonexistent_field", "syntax_error"} =>
            r.status = StatusBadRequest

\* one client got 200 for a response with partial data and errors and 400 for
\* a query on a nonexistent field
C22_Witness ==
  /\ \E i \in DOMAIN http :
       /\ http[i].status = StatusOK
       /\ http[i].executed.errors # <<>>
       /\ http[i].body.data # None
  /\ \E i \in DOMAIN http :
       /\ http[i].status = StatusBadRequest
       /\ http[i].request.query = "nonexistent_field"

\* ------------------------------------------------------------------ C23
\* the connection is open and initialized, and the client has sent exactly one
\* Subscribe for id i after ConnectionInit and no Complete for i since
CleanSubscription(i) ==
  /\ open
  /\ initialized
  /\ received.subscribed[i] = 1
  /\ ~received.completed[i]

\* the stream yields no errors
ErrorFree(s) == \A j \in DOMAIN s : ~s[j].errors

\* the messages a subscription with id i and stream s is to produce
Expected(i, s) == [j \in DOMAIN s |-> NextMsg(i, s[j].data)] \o <<CompleteMsg(i)>>

IsPrefix(p, q) == Len(p) <= Len(q) /\ p = SubSeq(q, 1, Len(p))

\* C23: on an open, initialized connection, for the one Subscribe with id i,
\* with a stream x1..xn free of errors, not completed by the client: the
\* messages with id i written to the socket are always a prefix of Next(x1),
\* ..., Next(xn), Complete, so the items come in stream order, Complete comes
\* once and no Next follows it; while no write has failed, every item the task
\* has taken from the stream is written, and when the task has ended all of
\* Next(x1), ..., Next(xn), Complete is written.
C23_SubscriptionDelivery ==
  \A i \in Ids :
    (CleanSubscription(i) /\ ErrorFree(tasks[subscriptions[i]].stream)) =>
      LET t == tasks[subscriptions[i]]
          all == Expected(i, t.stream)
      IN /\ t.st \in {"running", "finished"}
         /\ IsPrefix(wire[i], all)
         /\ (rxOpen /\ t.st = "running") => wire[i] = SubSeq(all, 1, t.pos)
         /\ (rxOpen /\ t.st = "finished") => wire[i] = all

\* a subscription whose stream yields as many items as a stream may has
\* ended with all its messages written, while the other id was in use too
C23_Witness ==
  \E i \in Ids :
    /\ CleanSubscription(i)
    /\ tasks[subscriptions[i]].st = "finished"
    /\ Len(tasks[subscriptions[i]].stream) = MaxStream
    /\ ErrorFree(tasks[subscriptions[i]].stream)
    /\ wire[i] = Expected(i, tasks[subscriptions[i]].stream)
    /\ Len(wire[i]) = MaxStream + 1
    /\ \E k \in Ids \ {i} : wire[k] # <<>>

\* ------------------------------------------------------------------ C24
\* the ConstValue has not the shape the type is converted from: no number for
\* i64, no boolean for bool, no string for String, neither null nor a number
\* for Option<i64>, no list or a list with an element that is no number for
\* Vec<i64>
WrongShape(ty, c) ==
  IF ty = TI64 THEN c[1] # "Number"
  ELSE IF ty = TBool THEN c[1] # "Boolean"
  ELSE IF ty = TString THEN c[1] # "String"
  ELSE IF ty = TOption(TI64) THEN c # Null /\ c[1] # "Number"
  ELSE c[1] # "List" \/ \E j \in DOMAIN c[2] : c[2][j][1] # "Number"

\* C24: for every value v of type i64, bool, String, Option<i64> and
\* Vec<i64>, from_const_value(to_const_value(v)) is Ok(v); from_const_value of
\* a ConstValue of the wrong shape is an Err.
C24_RoundTrip ==
  cvResult # NoValue =>
    /\ cvValue # NoValue => cvResult = Ok(cvValue[2])
    /\ WrongShape(cvType, cvConst[2]) => IsErr(cvResult)

\* a Vec<i64> holding the least i64 and a positive one came back from its
\* round trip
C24_Witness ==
  /\ cvType = TVec(TI64)
  /\ cvValue = <<"value", <<I64Min, I64Max>>>>
  /\ cvConst = <<"const", CList(<<CNumber(NegInt(I64Min)), CNumber(PosInt(I64Max))>>)>>
  /\ cvResult = Ok(<<I64Min, I64Max>>)

\* ------------------------------------------------------------------ C25
\* the flush tasks that have not swapped yet and will swap cell x
Waiting(x) == {t \in Calls : fpc[t] \in {"sleep", "take"} /\ taskCell[t] = x}

\* call c is the first call of its window
FirstOfWindow(c) == ~\E d \in Calls : d < c /\ wid[d] = wid[c]

\* C25: at any time at most one flush task is waiting to swap the pending
\* batch; a call that has gone through its critical section has scheduled a
\* flush task if and only if it is the first call of its window, and that task
\* swaps the batch of this window.
C25_SingleFlush ==
  /\ \A x \in Cells : Cardinality(Waiting(x)) <= 1
  /\ \A c \in Calls :
       pc[c] \in {"await", "cancelled"} => (fpc[c] # "none" <=> FirstOfWindow(c))
  /\ \A t \in Calls : Swapped(t) => tw[t] = wid[t]

\* two later calls have registered in the window the first call opened,
\* without scheduling, while the one flush task is still waiting
C25_Witness ==
  \E c \in Calls :
    /\ fpc[c] = "sleep"
    /\ Cardinality({d \in Calls : d > c /\ wid[d] = wid[c] /\ pc[d] = "await"
                                  /\ fpc[d] = "none"}) >= 2

\* ------------------------------------------------------------------ C26
\* C26: the lock of the pending batch is held by a caller only inside its
\* synchronous critical section (key push, sender push, flag) and by a flush
\* task only for the swap; a flush task that sleeps or awaits its fetch does
\* not hold it, so while a fetch is in flight the lock is free or with a
\* caller or a swapping task, which release it without awaiting anything.
C26_LockDiscipline ==
  \A x \in Cells :
    /\ \A c \in Calls :
         lock[x] = <<"load", c>> <=> (CellOf(c) = x /\ pc[c] \in {"pushSender", "schedule"})
    /\ \A t \in Calls :
         lock[x] = <<"flush", t>> <=> (taskCell[t] = x /\ fpc[t] = "take")
    /\ lock[x] = Free \/ \E c \in Calls : lock[x] \in {<<"load", c>>, <<"flush", c>>}

\* a call of a later window is registering its key, with the lock, while the
\* fetch of an earlier window is in flight
C26_Witness ==
  \E t, c \in Calls :
    /\ fpc[t] = "fetch"
    /\ pc[c] = "pushSender"
    /\ lock[CellOf(c)] = <<"load", c>>
    /\ wid[c] > tw[t]
    /\ taskCell[t] = CellOf(c)

\* ------------------------------------------------------------------ C27
\* C27: no fetch invocation has an empty key vector; the swap of a flush task
\* leaves PendingBatch::default() in the cell (no keys, no senders, no flush
\* scheduled), and the task that swapped out an empty batch ends without a
\* fetch invocation while the task that swapped out keys makes one, with
\* those keys.
C27_NoEmptyFetch ==
  /\ [](\A i \in DOMAIN fetchLog : fetchLog[i].keys # <<>>)
  /\ [][\A t \in Calls :
          (fpc[t] = "take" /\ fpc'[t] # "take") =>
            /\ pending'[taskCell[t]] = EmptyBatch
            /\ IF batch'[t].keys = <<>>
                 THEN fetchLog' = fetchLog /\ fpc'[t] = "done"
                 ELSE /\ fpc'[t] = "fetch"
                      /\ fetchLog' = Append(fetchLog, [task |-> t, fn |-> taskFn[t],
                                                       keys |-> batch'[t].keys])]_vars

\* a flush task has swapped, left the fresh batch behind and is awaiting its
\* fetch, invoked with the keys of its window
C27_Witness ==
  \E t \in Calls :
    /\ fpc[t] = "fetch"
    /\ Len(batch[t].keys) >= 2
    /\ pending[taskCell[t]] = EmptyBatch
    /\ \E i \in DOMAIN fetchLog : fetchLog[i].task = t /\ fetchLog[i].keys = batch[t].keys

\* ------------------------------------------------------------------ C28
\* the keys of the fetched map of task t that its window did not request
ExtraKeys(t) == DOMAIN results[t] \ KeySet(batch[t].keys)

\* C28: entries of the fetched map for keys the window did not request reach
\* no caller and no later window, and the task ends normally: a value held by
\* a channel is the value the map of the call's own window has for the call's
\* own key; once the task of a window is done, each of its calls that was not
\* cancelled holds the value of its key or is closed when the map omits the
\* key; and the PendingBatch holds keys and senders of registered calls only.
C28_ExtraKeysIgnored ==
  /\ \A c \in Calls :
       Sent(c) =>
         \E t \in Calls :
           /\ fpc[t] = "done"
           /\ c \in SenderCalls(batch[t].senders)
           /\ key[c] \in DOMAIN results[t] \ ExtraKeys(t)
           /\ chan[c][2] = results[t][key[c]]
  /\ \A t \in Calls :
       fpc[t] = "done" =>
         \A c \in SenderCalls(batch[t].senders) :
           pc[c] # "cancelled" =>
             chan[c] = IF key[c] \in DOMAIN results[t]
                         THEN <<"sent", results[t][key[c]]>> ELSE Closed
  /\ \A t \in Calls : ExtraKeys(t) # {} => fpc[t] = "done"
  /\ \A x \in Cells :
       /\ \A i \in DOMAIN pending[x].senders :
            pending[x].senders[i][1] = key[pending[x].senders[i][2]]
       /\ \A i \in DOMAIN pending[x].keys :
            \E c \in Calls : Registered(c) /\ key[c] = pending[x].keys[i]

\* the map of a window had an entry for a key nobody of the window asked for,
\* its own caller got its value, and a call of a later window for that key
\* returned None because the map of its own window omitted the key
C28_Witness ==
  \E t, u \in Calls, c, d \in Calls, k \in Keys :
    /\ fpc[t] = "done" /\ fpc[u] = "done" /\ tw[t] < tw[u]
    /\ k \in ExtraKeys(t)
    /\ c \in SenderCalls(batch[t].senders)
    /\ Resolved(c) /\ Returned(c) = Some(Val(t, key[c]))
    /\ d \in SenderCalls(batch[u].senders)
    /\ key[d] = k /\ k \notin DOMAIN results[u]
    /\ Resolved(d) /\ Returned(d) = None

\* ------------------------------------------------------------------ C29
\* the key list and the (key, sender) list of a PendingBatch are parallel
Parallel(p) ==
  /\ Len(p.keys) = Len(p.senders)
  /\ \A i \in DOMAIN p.keys : p.senders[i][1] = p.keys[i]

\* C29: whenever the lock of a PendingBatch is free, its key list and its
\* (key, sender) list have the same length and the same key at every index,
\* and its scheduled flag is true exactly when the key list is not empty.
C29_PendingBatchInvariant ==
  \A x \in Cells :
    lock[x] = Free =>
      /\ Parallel(pending[x])
      /\ (pending[x].scheduled <=> (pending[x].keys # <<>>))

\* after a swap, two calls with different keys have registered in the next
\* window and the lock is free again
C29_Witness ==
  \E x \in Cells :
    /\ lock[x] = Free
    /\ epoch >= 1
    /\ Len(pending[x].keys) >= 2
    /\ pending[x].keys[1] # pending[x].keys[2]
    /\ pending[x].scheduled

\* ------------------------------------------------------------------ C30
\* the types that are the target of a Scalar edge: the types of the fields
\* and the return types of the resolvers that are no Vec
ScalarTargets ==
  {e.member.ty.name : e \in {x \in Range(AllFields(module.structs)) : ~x.member.ty.vec}}
  \cup
  {e.member.ret.name : e \in {x \in Range(AllMethods(module.impls)) : ~x.member.ret.vec}}

\* C30: the set of list-context types the analysis computes from the parsed
\* module is the set of the inner types of the Vec fields of all structs and
\* of the Vec-returning resolvers of all impl blocks, those of Query and
\* Mutation included; a type that only Scalar edges lead to is not in it.
C30_ListReachableSet ==
  parsed # NoParsed =>
    /\ list_context_types(parsed) = ListReachable
    /\ \A t \in ScalarTargets \ ListReachable : ~InListContext(parsed, t)

\* the analysis ran on a module in which a resolver of Query returns a Vec of
\* a type, which is in the set, and another type is the target of a Scalar
\* edge only, which is not
C30_Witness ==
  /\ AnalysisDone
  /\ \E e \in ListEdges :
       /\ e.container = "Query" /\ e.kind = "resolver"
       /\ InListContext(parsed, e.target)
  /\ \E t \in ScalarTargets : ~InListContext(parsed, t)

\* ------------------------------------------------------------------ C31
\* resolver r of a non-root type returns an unbatched list of its own type,
\* and no List edge of another type leads to that type
SelfReferenceOnly(r) ==
  /\ r.owner \notin RootTypes
  /\ r.member.ret = VecOf(r.owner)
  /\ r.member.batch = "none"
  /\ \A e \in ListEdges : e.target = r.owner => e.container = r.owner

\* C31: once the analysis has run, a non-root type that only its own
\* resolvers lead to by a List edge, with a resolver returning an unbatched
\* list of the type itself, is in the list-context set and that resolver is
\* reported as a violation.
C31_SelfReference ==
  \A r \in Resolvers :
    (AnalysisDone /\ SelfReferenceOnly(r)) =>
      /\ InListContext(parsed, r.owner)
      /\ Reported(r)

\* ------------------------------------------------------------------ C32
\* a Scalar edge leads from a list-reachable container to type p: a plain
\* field of a struct, or a resolver returning the plain type
ScalarFromListReachable(p) ==
  \/ \E e \in Range(AllFields(module.structs)) :
       ~e.member.ty.vec /\ e.member.ty.name = p /\ e.owner \in ListReachable
  \/ \E e \in Range(AllMethods(module.impls)) :
       ~e.member.ret.vec /\ e.member.ret.name = p /\ e.owner \in ListReachable

\* C32: a type that only Scalar edges lead to is the container of no
\* reported violation, also when the container a Scalar edge comes from is
\* list-reachable; the container of a reported violation is always the target
\* of a List edge of the description.
C32_NonTransitive ==
  AnalysisDone =>
    /\ \A p \in ScalarTargets \ ListReachable :
         \A r \in Resolvers : r.owner = p => ~Reported(r)
    /\ (AnalysisFailed => result[2].type_name \in ListReachable)

\* the analysis passed a description in which a type with an unbatched list
\* resolver is the target of a Scalar edge from a list-reachable type only
C32_Witness ==
  /\ AnalysisPassed
  /\ \E r \in Resolvers :
       /\ UnbatchedList(r)
       /\ r.owner \notin ListReachable
       /\ ScalarFromListReachable(r.owner)

\* ------------------------------------------------------------------ C33
\* the List edges of the description in declaration order: the Vec fields of
\* the structs, then the Vec-returning resolvers of the impl blocks
ListEdgeSeq ==
  LET fs == SelectSeq(AllFields(module.structs), LAMBDA x : x.member.ty.vec)
      ms == SelectSeq(AllMethods(module.impls), LAMBDA x : x.member.ret.vec)
  IN [i \in DOMAIN fs |->
        [container |-> fs[i].owner, member |-> fs[i].member.name,
         target |-> fs[i].member.ty.name, kind |-> "field"]]
     \o [i \in DOMAIN ms |->
           [container |-> ms[i].owner, member |-> ms[i].member.name,
            target |-> ms[i].member.ret.name, kind |-> "resolver"]]

\* the evidence of type t: the List edges with target t, in that order
EvidenceOf(t) == SelectSeq(ListEdgeSeq, LAMBDA e : e.target = t)

\* C33: the evidence of the violation the analysis reports is made of exactly
\* the List edges whose target is the violation's container type, the field
\* edges first and the resolver edges after them, each in declaration order,
\* the resolvers of the container type itself included; it is never empty.
C33_Evidence ==
  AnalysisFailed =>
    LET ev == EvidenceOf(result[2].type_name)
    IN /\ result[2].context_sources = [i \in DOMAIN ev |-> EdgeText(ev[i])]
       /\ result[2].context_sources # <<>>
       /\ Range(ev) = {e \in ListEdges : e.target = result[2].type_name}

\* the reported violation has two pieces of evidence, a field of another type
\* and then the resolver of the container type itself
C33_Witness ==
  /\ AnalysisFailed
  /\ Len(result[2].context_sources) = 2
  /\ \E e, f \in ListEdges :
       /\ e.kind = "field" /\ e.container # result[2].type_name
       /\ f.kind = "resolver" /\ f.container = result[2].type_name
       /\ result[2].context_sources = <<EdgeText(e), EdgeText(f)>>

\* ------------------------------------------------------------------ C34
\* the resolvers of the description in declaration order: block by block,
\* and method by method within a block
ResolverSeq == AllMethods(module.impls)

\* the first violating resolver in declaration order
FirstViolation ==
  ResolverSeq[CHOOSE i \in DOMAIN ResolverSeq :
                /\ Violating(ResolverSeq[i])
                /\ \A j \in 1..(i - 1) : ~Violating(ResolverSeq[j])]

\* the outcome of the analysis that ran: its error, or Ok
Outcome == IF AnalysisFailed THEN result ELSE Ok(<<>>)

\* C34: the outcome of the analysis is the one another run on the same
\* description gives, and when the description has a violating resolver the
\* analysis fails and the resolver its error names is the first violating one
\* in the order of the impl blocks and, within a block, of the methods.
C34_Deterministic ==
  AnalysisDone =>
    /\ Outcome = validate_n_plus_one(parse_module(module)[2])
    /\ (Violations # {} => AnalysisFailed /\ Reported(FirstViolation))

\* ------------------------------------------------------------------ C35
\* the fetch invocations of flush task t
InvocationsOf(t) == {i \in DOMAIN fetchLog : fetchLog[i].task = t}

\* C35: the batch a flush task has swapped out holds at least one key, among
\* them the key and the sender of the call that scheduled the task, and the
\* task has gone on to exactly one fetch invocation: it did not return on an
\* empty batch.
C35_FlushFindsWork ==
  \A t \in Calls :
    Swapped(t) =>
      /\ batch[t].keys # <<>>
      /\ \E i \in DOMAIN batch[t].senders : batch[t].senders[i] = <<key[t], t>>
      /\ batch[t].keys[1] = key[t]
      /\ Cardinality(InvocationsOf(t)) = 1
      /\ fpc[t] \in {"fetch", "done", "panicked"}

\* two flush tasks have swapped, the first a batch of two calls, and each has
\* invoked the fetch function
C35_Witness ==
  \E t, u \in Calls :
    /\ Swapped(t) /\ Swapped(u) /\ tw[t] < tw[u]
    /\ Len(batch[t].keys) >= 2
    /\ InvocationsOf(t) # {} /\ InvocationsOf(u) # {}

\* ------------------------------------------------------------------ C36
\* call c has left the critical section of load
Left(c) == pc[c] \in {"await", "cancelled"}

\* C36: once the fetch future of a window has panicked, the flush task holds
\* no lock and has distributed nothing, the channel of every call of the
\* window is closed and each of these calls that is still awaited has
\* returned None; a call that registered after the swap of that window is in
\* a window of its own, which has a flush scheduled or has been swapped out by
\* another task, and is served by that task's fetch like any other call.
C36_FetchPanic ==
  \A t \in Calls :
    fpc[t] = "panicked" =>
      /\ lock[taskCell[t]] # <<"flush", t>>
      /\ results[t] = <<>>
      /\ \A c \in SenderCalls(batch[t].senders) :
           /\ chan[c] = Closed
           /\ (pc[c] = "await" => Resolved(c) /\ Returned(c) = None)
      /\ \A c \in Calls :
           (wid[c] > tw[t] /\ Left(c)) =>
             \/ /\ pending[CellOf(c)].scheduled
                /\ c \in SenderCalls(pending[CellOf(c)].senders)
             \/ \E u \in Calls \ {t} :
                  /\ tw[u] = wid[c]
                  /\ c \in SenderCalls(batch[u].senders)
                  /\ ((fpc[u] = "done" /\ pc[c] # "cancelled") =>
                        chan[c] = IF key[c] \in DOMAIN results[u]
                                    THEN <<"sent", results[u][key[c]]>> ELSE Closed)

\* the fetch of a window panicked and its caller returned None; a call made
\* after it, for the same key, got the value of its own window's fetch
C36_Witness ==
  \E t, u \in Calls, c, d \in Calls :
    /\ fpc[t] = "panicked" /\ fpc[u] = "done" /\ tw[t] < tw[u]
    /\ c \in SenderCalls(batch[t].senders)
    /\ Resolved(c) /\ Returned(c) = None
    /\ d \in SenderCalls(batch[u].senders)
    /\ key[d] = key[c]
    /\ Resolved(d) /\ Returned(d) = Some(Val(u, key[d]))

\* ------------------------------------------------------------------ C37
\* the messages of the subscriptions written so far
SubscriptionMsgs == UNION {Range(wire[i]) : i \in Ids}

\* the receive loop takes a frame in this step
Receives == received'.frames = received.frames + 1

\* the receive loop takes a Subscribe with id i on an initialized connection
Subscribes(i) == received'.subscribed[i] = received.subscribed[i] + 1

\* C37: as long as no ConnectionInit was processed, whatever frames came,
\* Subscribes among them, no subscription task exists and no Next, Error or
\* Complete of a subscription was written, nor a ConnectionAck; the step that
\* processes ConnectionInit sends ConnectionAck, which is written next unless
\* the socket fails; an initialized connection stays initialized; and on it
\* every Subscribe processed starts a running task for its id.
C37_HandshakeGating ==
  /\ [](~initialized =>
          /\ tasks = <<>> /\ subscriptions = <<>>
          /\ SubscriptionMsgs = {}
          /\ ConnectionAck \notin Range(wire[NoId])
          /\ \A i \in Ids : received.subscribed[i] = 0)
  /\ []((initialized /\ rxOpen) => ConnectionAck \in Range(wire[NoId]))
  /\ [][/\ initialized => initialized'
        /\ (~initialized /\ initialized') =>
             /\ Receives
             /\ \/ wire' = Written(wire, ConnectionAck)
                \/ ~rxOpen' /\ wire' = wire
        /\ (~initialized /\ Receives /\ ~initialized') =>
             /\ tasks' = <<>>
             /\ \A i \in Ids : wire'[i] = <<>>
        /\ \A i \in Ids :
             Subscribes(i) =>
               /\ initialized
               /\ Len(tasks') = Len(tasks) + 1
               /\ tasks'[Len(tasks')].id = i /\ tasks'[Len(tasks')].st = "running"
               /\ subscriptions'[i] = Len(tasks')]_vars

\* a Subscribe came before ConnectionInit and started nothing; ConnectionInit
\* was acknowledged, and the Subscribe after it started a task that has
\* written a message
C37_Witness ==
  /\ received.early
  /\ initialized
  /\ ConnectionAck \in Range(wire[NoId])
  /\ Len(tasks) = 1
  /\ \E i \in Ids : received.subscribed[i] = 1 /\ wire[i] # <<>>

\* ------------------------------------------------------------------ C38
\* the tasks of id i that were not aborted and have not ended
RunningFor(i) == {h \in DOMAIN tasks : tasks[h].id = i /\ tasks[h].st = "running"}

\* C38: the table maps each id to at most one task, a task of that id that
\* was not aborted; every task that runs unaborted is the one the table holds
\* for its id, so the task a Subscribe replaced and the task a Complete
\* removed have been aborted; a frame that does not end the loop changes the
\* table at one id at most, and only a Subscribe on an initialized connection
\* adds a task; once the receive loop has ended the table is
\* empty, no task runs unaborted and send_task has been aborted.
C38_SubscriptionTable ==
  /\ [](/\ DOMAIN subscriptions \subseteq Ids
        /\ \A i \in DOMAIN subscriptions :
             /\ subscriptions[i] \in DOMAIN tasks
             /\ tasks[subscriptions[i]].id = i
             /\ tasks[subscriptions[i]].st \in {"running", "finished"}
        /\ \A i \in Ids :
             /\ Cardinality(RunningFor(i)) <= 1
             /\ \A h \in RunningFor(i) :
                  i \in DOMAIN subscriptions /\ subscriptions[i] = h
        /\ \A i \in Ids :
             (received.completed[i] /\ i \in DOMAIN subscriptions) =>
               received.subscribed[i] >= 2
        /\ ~open =>
             /\ subscriptions = <<>>
             /\ \A h \in DOMAIN tasks : tasks[h].st # "running"
             /\ sendTask # "running")
  /\ [][/\ open' =>
             Cardinality({i \in Ids :
                            \/ (i \in DOMAIN subscriptions) # (i \in DOMAIN subscriptions')
                            \/ /\ i \in DOMAIN subscriptions
                               /\ i \in DOMAIN subscriptions'
                               /\ subscriptions[i] # subscriptions'[i]}) <= 1
        /\ \A i \in Ids :
             (i \in DOMAIN subscriptions /\ open' /\
                (i \notin DOMAIN subscriptions' \/ subscriptions'[i] # subscriptions[i])) =>
               /\ Receives
               /\ tasks'[subscriptions[i]].st # "running"
               /\ \A j \in Ids \ {i} : RunningFor(j)' = RunningFor(j)
        /\ (Receives /\ \A i \in Ids : ~Subscribes(i)) => Len(tasks') = Len(tasks)]_vars

\* a second Subscribe for an id replaced the first: the first task is aborted
\* and the table holds the second, which runs
C38_Witness ==
  \E i \in Ids, g, h \in DOMAIN tasks :
    /\ g < h
    /\ tasks[g].id = i /\ tasks[h].id = i
    /\ tasks[g].st \in {"cancelling", "aborted"}
    /\ tasks[h].st = "running"
    /\ i \in DOMAIN subscriptions /\ subscriptions[i] = h
    /\ received.subscribed[i] = 2

====
